---- MODULE Spec2Model ----
(***************************************************************************)
(* Model of the contract parser of src/extract_entity.py: the party        *)
(* extractor, the payer/payee resolver, the name cleaner and validator.    *)
(* Texts are TLA+ strings, handled character by character (Len, SubSeq,    *)
(* \o), so that every regular expression of the source is modelled on the  *)
(* characters it reads.  Positions are 1-based; a position set is the set  *)
(* of positions at which a partial regex match may end (the position of    *)
(* the next unread character), so Len(t)+1 means "at the end of t".        *)
(***************************************************************************)
EXTENDS Integers, Sequences, FiniteSets, TLC

VARIABLES
    op,         \* the operation the current state results from
    text,       \* the text argument (raw contract text)
    party1,     \* first party argument / first extracted party
    party2,     \* second party argument / second extracted party
    principal,  \* resolved payer
    agent,      \* resolved payee
    rule,       \* the return site of extract_payment_relationship that produced the result
    name,       \* argument of is_valid_entity_name / clean_entity_name
    valid,      \* result of is_valid_entity_name
    pdf_id,     \* the document id argument of parse_contract
    PDF_ID,     \* the document id of the returned record
    amount,     \* the amount of the returned record / the result of extract_amount
    last_parties, \* the dictionary extract_entities filled during the last call
    last_amounts, \* the list extract_amount filled during the last call
    calls,      \* the number of calls made on the parser instance
    result      \* the value returned by the helper method the last step called

vars == <<op, text, party1, party2, principal, agent, rule, name, valid,
          pdf_id, PDF_ID, amount, last_parties, last_amounts, calls, result>>

\* the variables of a parser session
session_vars == <<pdf_id, PDF_ID, amount, last_parties, last_amounts, calls, result>>

\* Python's None.  Strings of the model never contain "<", so None is
\* different from every text and name.
None == "<None>"

\* Python truthiness of an Optional[str]: None and "" are falsy.
Falsy(x) == x = None \/ x = ""

(***************************************************************************)
(* Characters and strings                                                  *)
(***************************************************************************)
UpperChars == "ABCDEFGHIJKLMNOPQRSTUVWXYZ"
LowerChars == "abcdefghijklmnopqrstuvwxyz"
DigitChars == "0123456789"

Ch(t, i) == SubSeq(t, i, i)

CharsOf(s) == {Ch(s, i) : i \in 1..Len(s)}

UpperSet == CharsOf(UpperChars)
LowerSet == CharsOf(LowerChars)
DigitSet == CharsOf(DigitChars)

IsUpper(c) == c \in UpperSet
IsLower(c) == c \in LowerSet
IsDigit(c) == c \in DigitSet
\* \s of the re module, restricted to the whitespace the modelled texts use
IsSpace(c) == c \in {" ", "\n"}
\* \w of the re module: letters, digits and the underscore
IsWord(c) == IsUpper(c) \/ IsLower(c) \/ IsDigit(c) \/ c = "_"

IndexIn(s, c) == CHOOSE i \in 1..Len(s) : Ch(s, i) = c

LowerChar(c) == IF IsUpper(c) THEN Ch(LowerChars, IndexIn(UpperChars, c)) ELSE c
UpperChar(c) == IF IsLower(c) THEN Ch(UpperChars, IndexIn(LowerChars, c)) ELSE c

RECURSIVE MapRange(_, _, _, _)
\* s[i..j] (i <= j) with every character mapped: f = "lower", "upper", or
\* "mixed" (upper case at odd positions, lower case at even ones);
\* the range is halved so that the recursion stays shallow on long texts
MapRange(s, i, j, f) ==
    IF i = j
    THEN (IF f = "lower" \/ (f = "mixed" /\ i % 2 = 0)
          THEN LowerChar(Ch(s, i)) ELSE UpperChar(Ch(s, i)))
    ELSE MapRange(s, i, (i + j) \div 2, f) \o MapRange(s, (i + j) \div 2 + 1, j, f)

\* str.lower() / str.upper()
Lower(s) == IF s = "" THEN "" ELSE MapRange(s, 1, Len(s), "lower")
Upper(s) == IF s = "" THEN "" ELSE MapRange(s, 1, Len(s), "upper")

\* a re-casing of s that changes no character but its case
Recase(s, f) == IF s = "" \/ s = None THEN s ELSE MapRange(s, 1, Len(s), f)
CaseModes == {"upper", "lower", "mixed"}

\* w occurs in t at position i
IsAt(t, i, w) ==
    /\ i >= 1
    /\ i + Len(w) - 1 <= Len(t)
    /\ SubSeq(t, i, i + Len(w) - 1) = w

\* start positions of the occurrences of w in t
Occ(t, w) == {i \in 1..(Len(t) - Len(w) + 1) : IsAt(t, i, w)}

\* Python's `w in t`
Contains(t, w) == w = "" \/ Occ(t, w) # {}

\* t[i..j-1] holds no newline ('.' without DOTALL does not match "\n")
NoNewline(t, i, j) == \A k \in i..(j - 1) : Ch(t, k) # "\n"

Min(S) == CHOOSE x \in S : \A y \in S : x <= y
Max(S) == CHOOSE x \in S : \A y \in S : x >= y

\* first position >= i whose character is not whitespace (Len(t)+1 if none)
SkipSpaces(t, i) ==
    CHOOSE j \in i..(Len(t) + 1) :
        /\ j = Len(t) + 1 \/ ~IsSpace(Ch(t, j))
        /\ \A k \in i..(j - 1) : IsSpace(Ch(t, k))

\* first position >= i whose character is not a word character
SkipWord(t, i) ==
    CHOOSE j \in i..(Len(t) + 1) :
        /\ j = Len(t) + 1 \/ ~IsWord(Ch(t, j))
        /\ \A k \in i..(j - 1) : IsWord(Ch(t, k))

\* str.strip() bounds: first and last non-whitespace position
StripStart(s) == SkipSpaces(s, 1)
StripEnd(s) ==
    Max({j \in 0..Len(s) : j = 0 \/ ~IsSpace(Ch(s, j))})
Strip(s) ==
    IF StripStart(s) > Len(s) THEN "" ELSE SubSeq(s, StripStart(s), StripEnd(s))

(***************************************************************************)
(* Position-set combinators: S is the set of positions a partial match may *)
(* have reached; each combinator gives the positions reachable after one   *)
(* more regex element.  re.search finds a match iff the final set is not   *)
(* empty (backtracking explores every path).                               *)
(***************************************************************************)
\* a literal w
Lit(t, S, w) == {i + Len(w) : i \in {j \in S : IsAt(t, j, w)}}

\* \s+
Spaces1(t, S) == UNION {(i + 1)..SkipSpaces(t, i) : i \in S}

\* position of the first newline at or after i (Len(t)+1 if none)
LineEnd(t, i) ==
    CHOOSE j \in i..(Len(t) + 1) :
        /\ j = Len(t) + 1 \/ Ch(t, j) = "\n"
        /\ \A k \in i..(j - 1) : Ch(t, k) # "\n"

\* .*  and  .*?  (no DOTALL)
DotStar(t, S) == UNION {i..LineEnd(t, i) : i \in S}

\* .{0,k}  and  .{0,k}?  with DOTALL
DotUpTo(t, S, k) ==
    UNION {i..(IF i + k <= Len(t) + 1 THEN i + k ELSE Len(t) + 1) : i \in S}

AllPos(t) == 1..(Len(t) + 1)

\* the character at position i is a word character
IsWordAt(t, i) == i >= 1 /\ i <= Len(t) /\ IsWord(Ch(t, i))

\* (?:the\s+)?
OptThe(t, S) == S \cup Spaces1(t, Lit(t, S, "the"))

\* (?:to\s+)?
OptTo(t, S) == S \cup Spaces1(t, Lit(t, S, "to"))

(***************************************************************************)
(* get_entity_type and _party_matches_text                                 *)
(***************************************************************************)
\* the scan order of get_entity_type
entity_types ==
    <<"sheriff", "township", "village", "town", "district",
      "city", "county", "agency", "department">>

\* indexes of the entity types contained in the lowercased party
types_in(party_lower) ==
    {k \in 1..Len(entity_types) : Contains(party_lower, entity_types[k])}

\* the first of them in scan order, None if there is none
first_type(hits) == IF hits = {} THEN None ELSE entity_types[Min(hits)]

\* get_entity_type with the bug of taking the last keyword of the scan order
get_entity_type_last(party) ==
    IF types_in(Lower(party)) = {} THEN None
    ELSE entity_types[Max(types_in(Lower(party)))]

get_entity_type(party) == first_type(types_in(Lower(party)))

\* party_lower in text_lower or text_lower in party_lower
party_matches_text(party_lower, text_lower) ==
    Contains(text_lower, party_lower) \/ Contains(party_lower, text_lower)

(***************************************************************************)
(* Rule 1: generic entity type patterns                                    *)
(***************************************************************************)
\* (?:shall|will|agrees?\s+to)
VerbHead(t, S) ==
    Lit(t, S, "shall") \cup Lit(t, S, "will")
    \cup Lit(t, Spaces1(t, Lit(t, S, "agree") \cup Lit(t, S, "agrees")), "to")

\* (?:shall|will|agrees?\s+to)\s+pay
verb_pay(t, S) == Lit(t, Spaces1(t, VerbHead(t, S)), "pay")

\* (payer_type, payee_type) of the four generic patterns, in list order
generic_patterns ==
    << <<"city", "county">>, <<"county", "city">>,
       <<"city", "sheriff">>, <<"sheriff", "city">> >>

\* re.search of
\* (?:the\s+)?<payer>.*?(?:shall|will|agrees?\s+to)\s+pay.*?(?:to\s+)?(?:the\s+)?<payee>
generic_search(t, payer, payee) ==
    LET a == Lit(t, OptThe(t, AllPos(t)), payer)
        b == DotStar(t, verb_pay(t, DotStar(t, a)))
    IN Lit(t, OptThe(t, OptTo(t, b)), payee) # {}

\* generic_loop with the bug of returning the parties in the order they were
\* passed in, whichever of them has the payer type
generic_loop_input_order(t, type1, type2, k) ==
    IF \E n \in k..Len(generic_patterns) :
          /\ {type1, type2} = {generic_patterns[n][1], generic_patterns[n][2]}
          /\ generic_search(t, generic_patterns[n][1], generic_patterns[n][2])
    THEN "12"
    ELSE "none"

RECURSIVE generic_loop(_, _, _, _)
\* the for loop over generic_patterns from index k: "12", "21" or "none"
generic_loop(t, type1, type2, k) ==
    IF k > Len(generic_patterns) THEN "none"
    ELSE IF /\ type1 = generic_patterns[k][1] /\ type2 = generic_patterns[k][2]
            /\ generic_search(t, generic_patterns[k][1], generic_patterns[k][2])
         THEN "12"
    ELSE IF /\ type2 = generic_patterns[k][1] /\ type1 = generic_patterns[k][2]
            /\ generic_search(t, generic_patterns[k][1], generic_patterns[k][2])
         THEN "21"
    ELSE generic_loop(t, type1, type2, k + 1)

\* rule 1 on the entity types of the two parties
typed_types(t, type1, type2) ==
    IF type1 # None /\ type2 # None /\ type1 # type2
    THEN generic_loop(t, type1, type2, 1)
    ELSE "none"

typed_rule(t, p1, p2) == typed_types(t, get_entity_type(p1), get_entity_type(p2))

(***************************************************************************)
(* Rule 2: direct "X shall pay Y" patterns                                 *)
(***************************************************************************)
\* the window of pattern1 / pattern2 and of the mention count
Window == 100

\* payment_verb_pattern: (?:shall|will|agrees?\s+to)\s+pay\s+(?:to\s+)?
payment_verb_pattern(t, S) == OptTo(t, Spaces1(t, verb_pay(t, S)))

\* direct_search with no bound on the two gaps: <a>.*?<verb>.*?<b>
direct_search_unbounded(t, a, b) ==
    LET s1 == DotUpTo(t, Lit(t, AllPos(t), a), Len(t))
        s2 == DotUpTo(t, payment_verb_pattern(t, s1), Len(t))
    IN Lit(t, s2, b) # {}

\* re.search(<a>.{0,100}?<verb>.{0,100}?<b>, text_lower, re.DOTALL)
direct_search(t, a, b) ==
    LET s1 == DotUpTo(t, Lit(t, AllPos(t), a), Window)
        s2 == DotUpTo(t, payment_verb_pattern(t, s1), Window)
    IN Lit(t, s2, b) # {}

\* direct_rule with the bug of returning the two parties the wrong way round
direct_rule_reversed(t, p1, p2) ==
    IF direct_search(t, p1, p2) THEN "21"
    ELSE IF direct_search(t, p2, p1) THEN "12"
    ELSE "none"

\* pattern1 is tried before pattern2
direct_rule(t, p1, p2) ==
    IF direct_search(t, p1, p2) THEN "12"
    ELSE IF direct_search(t, p2, p1) THEN "21"
    ELSE "none"

\* A finditer match: ok, the captured payer / payee text, and the position
\* at which the next search starts (the end of the match).
NoMatch == [ok |-> FALSE, payer |-> "", payee |-> "", next |-> 0]

\* the word that starts at g (a greedy \w+)
WordFrom(t, g) == SubSeq(t, g, SkipWord(t, g) - 1)

\* (?:the\s+)?(\w+ tried at q, a being the end of the whitespace after the
\* article: the article is taken when a word follows it, else the word at q
\* itself starts the group; 0 when there is no word
after_the(t, q, a) ==
    IF IsAt(t, q, "the") /\ a > q + 3 /\ IsWordAt(t, a) THEN a
    ELSE IF IsWordAt(t, q) THEN q
    ELSE 0

AfterOptThe(t, q) == after_the(t, q, SkipSpaces(t, q + 3))

\* (?:to\s+)?(?:the\s+)?(\w+ tried at q, q2 being the end of the whitespace
\* after "to": "to" is taken when a word follows it, else "to" is the word
after_to(t, q, q2) ==
    IF IsAt(t, q, "to") /\ q2 > q + 2 /\ AfterOptThe(t, q2) # 0
    THEN AfterOptThe(t, q2)
    ELSE AfterOptThe(t, q)

\* \s+(?:to\s+)?(?:the\s+)?(\w+ tried at p, the end of "pay", q being the
\* end of the whitespace after it
after_pay(t, p, q) == IF q = p THEN 0 ELSE after_to(t, q, SkipSpaces(t, q + 2))

\* P holds the end of "pay" if the verb matched
after_verb(t, P) == IF P = {} THEN 0 ELSE after_pay(t, Max(P), SkipSpaces(t, Max(P)))

\* payment_verb_pattern(?:the\s+)?(\w+...) tried at v: the start of group 2,
\* or 0 when the verb or the word after it does not match at v
verb_tail(t, v) == after_verb(t, verb_pay(t, {v}))

RECURSIVE pay_scan(_, _, _)
\* group 1 started at g and read up to e, the verb tried at v gave g2
pay_scan_verb(t, g, e, v, g2) ==
    IF g2 # 0
    THEN [ok |-> TRUE, payer |-> SubSeq(t, g, e - 1),
          payee |-> WordFrom(t, g2), next |-> SkipWord(t, g2)]
    ELSE IF IsWordAt(t, v) THEN pay_scan(t, g, SkipWord(t, v))
    ELSE NoMatch

\* v is the end of the whitespace after e
pay_scan_at(t, g, e, v) ==
    IF v = e \/ v > Len(t) THEN NoMatch
    ELSE pay_scan_verb(t, g, e, v, verb_tail(t, v))

\* group 1 of generic_pay_pattern started at g and read up to e (the end of
\* a word): (\w+(?:\s+\w+)*?) is extended word by word until \s+<verb> follows
pay_scan(t, g, e) == pay_scan_at(t, g, e, SkipSpaces(t, e))

\* generic_pay_pattern tried at s without the leading article
pay_match_plain(t, s) ==
    IF IsWordAt(t, s) THEN pay_scan(t, s, SkipWord(t, s)) ELSE NoMatch

\* m is the match with the leading (?:the\s+)? taken: it is given up when
\* the match fails with it
pay_match_prefer(t, s, m) == IF m.ok THEN m ELSE pay_match_plain(t, s)

\* a is the end of the whitespace after the article at s
pay_match_the(t, s, a) ==
    IF a > s + 3 /\ IsWordAt(t, a)
    THEN pay_match_prefer(t, s, pay_scan(t, a, SkipWord(t, a)))
    ELSE pay_match_plain(t, s)

\* (?:the\s+)?(\w+(?:\s+\w+)*?)\s+<verb>(?:the\s+)?(\w+(?:\s+\w+)*?) tried at s
pay_match_at(t, s) ==
    IF IsAt(t, s, "the") THEN pay_match_the(t, s, SkipSpaces(t, s + 3))
    ELSE pay_match_plain(t, s)

\* The start positions >= pos a pattern that begins with \w+ has to be tried
\* at: pos itself and every start of a word.  Such a pattern matches at the
\* second or a later character of a word only if it matches at the character
\* before it, so the leftmost match starts at one of these positions.
WordStarts(t, pos) ==
    {s \in pos..Len(t) : IsWord(Ch(t, s)) /\ (s = pos \/ ~IsWord(Ch(t, s - 1)))}

\* the occurrences of w at a position >= pos
OccFrom(t, pos, w) == {s \in Occ(t, w) : s >= pos}

\* the match at the leftmost of the positions at which the pattern matches
pay_match_first(t, starts) ==
    IF starts = {} THEN NoMatch ELSE pay_match_at(t, Min(starts))

\* the next match of re.finditer(generic_pay_pattern, text_lower) from pos
pay_match_next(t, pos) ==
    pay_match_first(t, {s \in WordStarts(t, pos) : pay_match_at(t, s).ok})

RECURSIVE loose_loop(_, _, _, _)
\* the body of the loop on the match m
loose_step(t, p1, p2, m) ==
    IF ~m.ok THEN "none"
    ELSE IF party_matches_text(p1, m.payer)
         THEN (IF party_matches_text(p2, m.payee) THEN "12"
               ELSE loose_loop(t, m.next, p1, p2))
    ELSE IF party_matches_text(p2, m.payer) /\ party_matches_text(p1, m.payee)
         THEN "21"
    ELSE loose_loop(t, m.next, p1, p2)

\* for match in re.finditer(generic_pay_pattern, text_lower), from pos
loose_loop(t, pos, p1, p2) ==
    loose_step(t, p1, p2, pay_match_next(t, pos))

(***************************************************************************)
(* Rule 3: "payment ... made ... to Y"                                     *)
(***************************************************************************)
first_pos(c) == IF c = {} THEN 0 ELSE Min(c)

\* first occurrence of w at a position >= i on the same line, 0 if none
NextOnLine(t, i, w) ==
    first_pos({j \in Occ(t, w) : j >= i /\ NoNewline(t, i, j)})

\* first word character at a position >= i on the same line, 0 if none
NextWordOnLine(t, i) ==
    first_pos({j \in i..Len(t) : IsWord(Ch(t, j)) /\ NoNewline(t, i, j)})

\* the same, n characters after the previous step, which failed if prev = 0
ThenOnLine(t, prev, n, w) == IF prev = 0 THEN 0 ELSE NextOnLine(t, prev + n, w)
ThenWordOnLine(t, prev, n) == IF prev = 0 THEN 0 ELSE NextWordOnLine(t, prev + n)
ThenGroup(t, q) == IF q = 0 THEN 0 ELSE AfterOptThe(t, q)

\* the match whose group starts at g
payment_to_group(t, s, g) ==
    IF IsAt(t, s, "payment") /\ g # 0
    THEN [ok |-> TRUE, payer |-> "", payee |-> WordFrom(t, g),
          next |-> SkipWord(t, g)]
    ELSE NoMatch

\* payment.*?(?:shall be )?made.*?to.*?(?:the\s+)?(\w+(?:\s+\w+)*?) tried at s:
\* every lazy .*? stops at the first place the rest can go on from
payment_to_at(t, s) ==
    LET m == NextOnLine(t, s + 7, "made")
        o == ThenOnLine(t, m, 4, "to")
        q == ThenWordOnLine(t, o, 2)
    IN payment_to_group(t, s, ThenGroup(t, q))

\* the match at the leftmost of the positions at which the pattern matches
payment_to_first(t, starts) ==
    IF starts = {} THEN NoMatch ELSE payment_to_at(t, Min(starts))

\* the next match of re.finditer(payment_to_pattern, text_lower) from pos
payment_to_next(t, pos) ==
    payment_to_first(t, {s \in OccFrom(t, pos, "payment") : payment_to_at(t, s).ok})

RECURSIVE payment_to_spans(_, _)
\* the spans captured after the match m
payment_to_spans_after(t, m) ==
    IF m.ok THEN <<m.payee>> \o payment_to_spans(t, m.next) ELSE <<>>

\* the spans captured by re.finditer(payment_to_pattern, text_lower) from
\* pos on, in match order
payment_to_spans(t, pos) ==
    payment_to_spans_after(t, payment_to_next(t, pos))

RECURSIVE payment_to_loop(_, _, _, _)
\* payment_to_step with the bug of taking the named party as the payer
payment_to_step_as_payer(t, p1, p2, m) ==
    IF ~m.ok THEN "none"
    ELSE IF party_matches_text(p1, m.payee) THEN "12"
    ELSE IF party_matches_text(p2, m.payee) THEN "21"
    ELSE payment_to_loop(t, m.next, p1, p2)

\* the body of the loop on the match m
payment_to_step(t, p1, p2, m) ==
    IF ~m.ok THEN "none"
    ELSE IF party_matches_text(p1, m.payee) THEN "21"
    ELSE IF party_matches_text(p2, m.payee) THEN "12"
    ELSE payment_to_loop(t, m.next, p1, p2)

\* for match in re.finditer(payment_to_pattern, text_lower), from pos
payment_to_loop(t, pos, p1, p2) ==
    payment_to_step(t, p1, p2, payment_to_next(t, pos))

(***************************************************************************)
(* Rule 4: "X shall be responsible for ... payment"                        *)
(***************************************************************************)
responsible_phrase == "shall be responsible for"

RECURSIVE responsible_scan(_, _, _)
\* the phrase is at v; k is the first "payment" after it on the line
responsible_end(t, g, e, v, k) ==
    IF k # 0
    THEN [ok |-> TRUE, payer |-> SubSeq(t, g, e - 1), payee |-> "",
          next |-> k + 7]
    ELSE responsible_scan(t, g, SkipWord(t, v))

\* v is the end of the whitespace after e
responsible_scan_at(t, g, e, v) ==
    IF v = e \/ v > Len(t) THEN NoMatch
    ELSE IF IsAt(t, v, responsible_phrase)
         THEN responsible_end(t, g, e, v,
                NextOnLine(t, v + Len(responsible_phrase), "payment"))
    ELSE IF IsWordAt(t, v) THEN responsible_scan(t, g, SkipWord(t, v))
    ELSE NoMatch

\* group 1 of responsible_pattern started at g and read up to e
responsible_scan(t, g, e) == responsible_scan_at(t, g, e, SkipSpaces(t, e))

\* (\w+(?:\s+\w+)*?)\s+shall be responsible for.*?payment tried at s
responsible_at(t, s) ==
    IF IsWordAt(t, s) THEN responsible_scan(t, s, SkipWord(t, s)) ELSE NoMatch

\* the match at the leftmost of the positions at which the pattern matches
responsible_first(t, starts) ==
    IF starts = {} THEN NoMatch ELSE responsible_at(t, Min(starts))

\* the next match of re.finditer(responsible_pattern, text_lower) from pos
responsible_next(t, pos) ==
    responsible_first(t, {s \in WordStarts(t, pos) : responsible_at(t, s).ok})

RECURSIVE responsible_spans(_, _)
\* the spans captured after the match m
responsible_spans_after(t, m) ==
    IF m.ok THEN <<m.payer>> \o responsible_spans(t, m.next) ELSE <<>>

\* the spans captured by re.finditer(responsible_pattern, text_lower) from
\* pos on, in match order
responsible_spans(t, pos) ==
    responsible_spans_after(t, responsible_next(t, pos))

RECURSIVE responsible_loop(_, _, _, _)
\* responsible_step with the bug of taking the responsible party as the payee
responsible_step_as_payee(t, p1, p2, m) ==
    IF ~m.ok THEN "none"
    ELSE IF party_matches_text(p1, m.payer) THEN "21"
    ELSE IF party_matches_text(p2, m.payer) THEN "12"
    ELSE responsible_loop(t, m.next, p1, p2)

\* the body of the loop on the match m
responsible_step(t, p1, p2, m) ==
    IF ~m.ok THEN "none"
    ELSE IF party_matches_text(p1, m.payer) THEN "12"
    ELSE IF party_matches_text(p2, m.payer) THEN "21"
    ELSE responsible_loop(t, m.next, p1, p2)

\* for match in re.finditer(responsible_pattern, text_lower), from pos
responsible_loop(t, pos, p1, p2) ==
    responsible_step(t, p1, p2, responsible_next(t, pos))

(***************************************************************************)
(* Rule 5: mentions near "pay"                                             *)
(***************************************************************************)
\* the "pay" that .{0,100}pay can reach from a, on the same line
pays_after(t, a) ==
    {j \in Occ(t, "pay") : a <= j /\ j <= a + Window /\ NoNewline(t, a, j)}

\* end of the greedy match of <p>.{0,100}pay that starts at i, 0 if none
pay_mention_end(t, i, p) ==
    IF IsAt(t, i, p) /\ pays_after(t, i + Len(p)) # {}
    THEN Max(pays_after(t, i + Len(p))) + 3
    ELSE 0

RECURSIVE pay_count(_, _, _)
\* starts holds the positions >= pos at which the pattern matches
pay_count_next(t, p, starts) ==
    IF starts = {} THEN 0
    ELSE 1 + pay_count(t, pay_mention_end(t, Min(starts), p), p)

\* len(re.findall(<p>.{0,100}pay, text_lower)), counted from pos
pay_count(t, pos, p) ==
    pay_count_next(t, p, {i \in OccFrom(t, pos, p) : pay_mention_end(t, i, p) # 0})

\* a count rule that looks at the mentions of party1 alone
count_rule_party1_only(c1, c2) ==
    IF c1 > c2 THEN "12" ELSE "none"

\* the party with strictly more mentions pays
count_rule(c1, c2) ==
    IF c1 > c2 THEN "12" ELSE IF c2 > c1 THEN "21" ELSE "none"

(***************************************************************************)
(* extract_payment_relationship                                            *)
(***************************************************************************)
\* the return statement of a rule: (party1, party2) for "12", (party2,
\* party1) for "21"
Ordered(p1, p2, d) ==
    IF d[1] = "12" THEN [principal |-> p1, agent |-> p2, rule |-> d[2]]
    ELSE [principal |-> p2, agent |-> p1, rule |-> d[2]]

\* default_order with the bug of swapping the parties when no rule fires
default_order_swapped == "21"

\* the default: return party1, party2
default_order == "12"

\* a rule that fired decides; one that did not leaves it to the rules after it
Decide(r, rulename, otherwise) == IF r # "none" THEN <<r, rulename>> ELSE otherwise

\* decision with "payment made to" tried before the direct patterns
decision_payment_to_first(p1, p2, tl, p1l, p2l) ==
    Decide(typed_rule(tl, p1, p2), "typed",
    Decide(payment_to_loop(tl, 1, p1l, p2l), "payment_to",
    Decide(direct_rule(tl, p1l, p2l), "direct",
    Decide(loose_loop(tl, 1, p1l, p2l), "loose",
    Decide(responsible_loop(tl, 1, p1l, p2l), "responsible",
    Decide(count_rule(pay_count(tl, 1, p1l), pay_count(tl, 1, p2l)), "count",
    <<default_order, "default">>))))))

\* The cascade on the lowercased text and parties: the order of the result
\* and the rule deciding it, the first rule that fires in the order of the code
decision(p1, p2, tl, p1l, p2l) ==
    Decide(typed_rule(tl, p1, p2), "typed",
    Decide(direct_rule(tl, p1l, p2l), "direct",
    Decide(loose_loop(tl, 1, p1l, p2l), "loose",
    Decide(payment_to_loop(tl, 1, p1l, p2l), "payment_to",
    Decide(responsible_loop(tl, 1, p1l, p2l), "responsible",
    Decide(count_rule(pay_count(tl, 1, p1l), pay_count(tl, 1, p2l)), "count",
    <<default_order, "default">>))))))

\* cascade with the bug of returning the lowercased working copies
cascade_lowercased(p1, p2, tl, p1l, p2l) ==
    Ordered(p1l, p2l, decision(p1, p2, tl, p1l, p2l))

cascade(p1, p2, tl, p1l, p2l) == Ordered(p1, p2, decision(p1, p2, tl, p1l, p2l))

\* extract_payment_relationship with the bug of guarding against None only,
\* so that an empty party enters the cascade
extract_payment_relationship_none_only(t, p1, p2) ==
    IF p1 = None \/ p2 = None
    THEN [principal |-> p1, agent |-> p2, rule |-> "absent"]
    ELSE cascade(p1, p2, Lower(t), Lower(p1), Lower(p2))

\* extract_payment_relationship with the bug of matching the text as given,
\* not lowercased
extract_payment_relationship_cased(t, p1, p2) ==
    IF Falsy(p1) \/ Falsy(p2)
    THEN [principal |-> p1, agent |-> p2, rule |-> "absent"]
    ELSE cascade(p1, p2, t, Lower(p1), Lower(p2))

\* extract_payment_relationship(text, party1, party2)
extract_payment_relationship(t, p1, p2) ==
    IF Falsy(p1) \/ Falsy(p2)
    THEN [principal |-> p1, agent |-> p2, rule |-> "absent"]
    ELSE cascade(p1, p2, Lower(t), Lower(p1), Lower(p2))

(***************************************************************************)
(* is_valid_entity_name                                                    *)
(***************************************************************************)
\* the character at position i, "" outside the string
CharAt(t, i) == IF i >= 1 /\ i <= Len(t) THEN Ch(t, i) ELSE ""

\* $ : at the end of t, or before a newline that ends t
AtEnd(t, i) == i = Len(t) + 1 \/ (i = Len(t) /\ CharAt(t, i) = "\n")

\* \s*
Spaces0(t, S) == UNION {i..SkipSpaces(t, i) : i \in S}

\* self.entity_keywords
entity_keywords ==
    <<"County", "City", "State", "Agency", "Department", "District", "Board",
      "Commission", "Authority", "Corporation", "College", "University",
      "School", "Township", "Village", "Municipality">>

\* [kw.lower() for kw in self.entity_keywords]
entity_keywords_lower ==
    {Lower(entity_keywords[k]) : k \in 1..Len(entity_keywords)}

\* the invalid_patterns that are a literal anchored at the start of the name
invalid_prefixes ==
    {"county of each participant", "each participant", "participant to",
     "full legal name", "organization type", "to as"}

\* the words of ^\s*(and|or|the|a|an)\s*$
bare_words == {"and", "or", "the", "a", "an"}

\* ^party \d+
invalid_party(nl) == IsAt(nl, 1, "party ") /\ IsDigit(CharAt(nl, 7))

\* hereinafter.*to as$
invalid_hereinafter(nl) ==
    \E i \in Occ(nl, "hereinafter") : \E j \in Occ(nl, "to as") :
        j >= i + 11 /\ NoNewline(nl, i + 11, j) /\ AtEnd(nl, j + 5)

\* ^\s*(and|or|the|a|an)\s*$
invalid_bare_word(nl) ==
    \E w \in bare_words :
        \E e \in Spaces0(nl, Lit(nl, Spaces0(nl, {1}), w)) : AtEnd(nl, e)

\* some pattern of invalid_patterns is found in name_lower
matches_invalid_pattern(nl) ==
    \/ \E w \in invalid_prefixes : IsAt(nl, 1, w)
    \/ invalid_party(nl)
    \/ invalid_hereinafter(nl)
    \/ invalid_bare_word(nl)

\* is_valid_entity_name(name): the keyword test compares the name as it is
\* cased with the lowercased keywords
is_valid_entity_name(n) ==
    IF Falsy(n) \/ Len(Strip(n)) < 3 THEN FALSE
    ELSE IF matches_invalid_pattern(Lower(n)) THEN FALSE
    ELSE IF Strip(n) \in entity_keywords_lower THEN FALSE
    ELSE TRUE

(***************************************************************************)
(* String rewriting shared by preprocess_text, extract_entities and        *)
(* clean_entity_name.  A span <<i, j>> is the part t[i..j-1] of a text.     *)
(***************************************************************************)
\* \b at position i: exactly one of t[i-1], t[i] is a word character
WordBoundary(t, i) == IsWordAt(t, i - 1) # IsWordAt(t, i)

\* first position >= i whose character is not a digit
SkipDigits(t, i) ==
    CHOOSE j \in i..(Len(t) + 1) :
        /\ j = Len(t) + 1 \/ ~IsDigit(Ch(t, j))
        /\ \A k \in i..(j - 1) : IsDigit(Ch(t, k))

\* t with the span sp replaced by rep
Splice(t, sp, rep) == SubSeq(t, 1, sp[1] - 1) \o rep \o SubSeq(t, sp[2], Len(t))

\* the last of a set of spans
LastSpan(spans) == CHOOSE sp \in spans : \A o \in spans : o[1] <= sp[1]

RECURSIVE ReplaceSpans(_, _, _)
\* re.sub: t with each of the (disjoint) spans replaced by rep
ReplaceSpans(t, spans, rep) ==
    IF spans = {} THEN t
    ELSE ReplaceSpans(Splice(t, LastSpan(spans), rep),
                      spans \ {LastSpan(spans)}, rep)

RECURSIVE CollapseRange(_, _, _)
\* s[i..j] (i <= j) with every run of whitespace replaced by one space
CollapseRange(s, i, j) ==
    IF i = j
    THEN (IF ~IsSpace(Ch(s, i)) THEN Ch(s, i)
          ELSE IF i > 1 /\ IsSpace(Ch(s, i - 1)) THEN "" ELSE " ")
    ELSE CollapseRange(s, i, (i + j) \div 2) \o CollapseRange(s, (i + j) \div 2 + 1, j)

\* re.sub(r"\s+", " ", s)
CollapseSpaces(s) == IF s = "" THEN "" ELSE CollapseRange(s, 1, Len(s))

\* re.sub(r"\s+", " ", s).strip()
Normalize(s) == Strip(CollapseSpaces(s))

(***************************************************************************)
(* preprocess_text                                                         *)
(***************************************************************************)
\* a table in which one correction produces the error of another
ocr_corrections_overlapping ==
    << <<"lowa", "Iowa">>, <<"Des l/loines", "Des Moines">>,
       <<"lVlarshall", "Marshall">>, <<"Countv", "County">>,
       <<"Citv", "Countv">>, <<"CHickasaw", "Chickasaw">> >>

\* self.ocr_corrections: the misspelling of \b<error>\b and its correction
ocr_corrections ==
    << <<"lowa", "Iowa">>, <<"Des l/loines", "Des Moines">>,
       <<"lVlarshall", "Marshall">>, <<"Countv", "County">>,
       <<"Citv", "City">>, <<"CHickasaw", "Chickasaw">> >>

\* the matches of \b<error>\b in t with re.IGNORECASE
error_spans(t, error) ==
    {<<i, i + Len(error)>> :
        i \in {j \in Occ(Lower(t), Lower(error)) :
                 WordBoundary(t, j) /\ WordBoundary(t, j + Len(error))}}

RECURSIVE apply_corrections(_, _)
\* the loop over ocr_corrections from entry k on
apply_corrections(t, k) ==
    IF k > Len(ocr_corrections) THEN t
    ELSE apply_corrections(
            ReplaceSpans(t, error_spans(t, ocr_corrections[k][1]),
                         ocr_corrections[k][2]),
            k + 1)

preprocess_text(t) == IF Falsy(t) THEN t ELSE apply_corrections(t, 1)

(***************************************************************************)
(* extract_entities, tier A: "Party N" form fields                         *)
(***************************************************************************)
\* positions of the newlines of t
Newlines(t) == {i \in 1..Len(t) : Ch(t, i) = "\n"}

\* position of the k-th newline of t; 0 for k = 0, Len(t)+1 past the last
NthBreak(t, k) ==
    IF k = 0 THEN 0
    ELSE IF k > Cardinality(Newlines(t)) THEN Len(t) + 1
    ELSE CHOOSE x \in Newlines(t) :
            Cardinality({y \in Newlines(t) : y < x}) = k - 1

\* text.split("\n")
SplitLines(t) ==
    [k \in 1..(Cardinality(Newlines(t)) + 1) |->
        SubSeq(t, NthBreak(t, k - 1) + 1, NthBreak(t, k) - 1)]

\* the digits of "Party\s+(\d+)" at the start of s, given the end d of the
\* whitespace after "Party": "" when s does not start that way
party_digits(s, d) ==
    IF IsAt(Lower(s), 1, "party") /\ d > 6 /\ SkipDigits(s, d) > d
    THEN SubSeq(s, d, SkipDigits(s, d) - 1)
    ELSE ""

\* re.match(r"Party\s+(\d+)\s*$", s, re.IGNORECASE) on a stripped line:
\* group 1, "" when the line is not a party declaration
party_header(s) ==
    IF Len(s) >= 6 /\ SkipDigits(s, SkipSpaces(s, 6)) = Len(s) + 1
    THEN party_digits(s, SkipSpaces(s, 6))
    ELSE ""

\* re.match(r"Party\s+\d+", s, re.IGNORECASE)
party_prefix(s) == Len(s) >= 6 /\ party_digits(s, SkipSpaces(s, 6)) # ""

RECURSIVE party_num(_)
\* int(group 1), as the decimal numeral without leading zeros
party_num(d) ==
    IF Len(d) > 1 /\ Ch(d, 1) = "0" THEN party_num(SubSeq(d, 2, Len(d))) ELSE d

\* sys.int_info.default_max_str_digits: int() of a longer numeral raises
\* ValueError (CPython 3.11 and the security releases of 3.7 to 3.10)
MaxStrDigits == 4300

\* int(group 1) raises
int_raises(d) == Len(d) > MaxStrDigits

\* the loop over the lines reaches a declaration, not on the last line, whose
\* number int() does not convert: the exception is caught nowhere
party_loop_raises(lines) ==
    \E i \in 1..(Len(lines) - 1) : int_raises(party_header(Strip(lines[i])))

\* extract_entities(text) raises
extract_entities_raises(t) == party_loop_raises(SplitLines(t))

\* every character of s is a digit / an upper-case letter
AllDigits(s) == \A k \in 1..Len(s) : IsDigit(Ch(s, k))
AllUpper(s) == \A k \in 1..Len(s) : IsUpper(Ch(s, k))

\* the tests a stripped candidate line has to pass
candidate_ok(c) ==
    /\ c # ""
    /\ Len(c) > 2
    /\ ~party_prefix(c)
    /\ c \notin {entity_keywords[k] : k \in 1..Len(entity_keywords)}
    /\ ~AllDigits(c)
    /\ ~(Len(c) \in {2, 3} /\ AllUpper(c))

\* the name a candidate line gives: None when the line is skipped or its
\* name is not valid
candidate_name(c) ==
    IF candidate_ok(c) /\ is_valid_entity_name(Normalize(c))
    THEN Normalize(c)
    ELSE None

\* for offset in [1, 2]: the first name found below line i, None if none
name_below_from(lines, i, first) ==
    IF first # None THEN first
    ELSE IF i + 2 > Len(lines) THEN None
    ELSE candidate_name(Strip(lines[i + 2]))

name_below(lines, i) ==
    name_below_from(lines, i, candidate_name(Strip(lines[i + 1])))

\* store_party with the bug of letting a later declaration overwrite the name
store_party_overwrite(parties, num, found) ==
    IF found # None
    THEN {p \in parties : p[1] # num} \cup {<<num, found>>}
    ELSE parties

\* parties[party_num] = name, unless the index is already stored
store_party(parties, num, found) ==
    IF found # None /\ ~(\E p \in parties : p[1] = num)
    THEN parties \cup {<<num, found>>}
    ELSE parties

\* the body of the loop for line i whose declaration has the digits d
scan_line(lines, i, parties, d) ==
    IF d # "" /\ i < Len(lines)
    THEN store_party(parties, party_num(d), name_below(lines, i))
    ELSE parties

RECURSIVE scan_lines(_, _, _)
\* for i, line in enumerate(lines), from line i on: the parties dictionary
\* as a set of <<party_num, name>>
scan_lines(lines, i, parties) ==
    IF i > Len(lines) THEN parties
    ELSE scan_lines(lines, i + 1,
                    scan_line(lines, i, parties, party_header(Strip(lines[i]))))

\* parties[n], None when n is not a key
party_of(parties, n) ==
    IF \E p \in parties : p[1] = n
    THEN (CHOOSE p \in parties : p[1] = n)[2]
    ELSE None

\* the parties tier A finds: <<parties[1], parties[2]>>
tier_a_parties(parties) == <<party_of(parties, "1"), party_of(parties, "2")>>

tier_a(t) == tier_a_parties(scan_lines(SplitLines(t), 1, {}))

(***************************************************************************)
(* extract_entities, tier B: "This agreement is entered into ... by and    *)
(* between A and B".  The patterns are searched with re.IGNORECASE and     *)
(* re.DOTALL: literals are matched on the lowercased text tl.              *)
(***************************************************************************)
\* [,\s]+
CommaSpaces1(t, S) ==
    UNION {(i + 1)..(CHOOSE j \in i..(Len(t) + 1) :
                        /\ j = Len(t) + 1 \/ ~(IsSpace(Ch(t, j)) \/ Ch(t, j) = ",")
                        /\ \A k \in i..(j - 1) : IsSpace(Ch(t, k)) \/ Ch(t, k) = ",")
           : i \in S}

\* \w+
Word1(t, S) == UNION {(i + 1)..SkipWord(t, i) : i \in S}

\* a letter ([A-Z] or [a-z] with re.IGNORECASE)
IsLetter(c) == IsUpper(c) \/ IsLower(c)

\* \d{n}
DigitsN(t, S, n) ==
    {i + n : i \in {j \in S : \A k \in j..(j + n - 1) : IsDigit(CharAt(t, k))}}

\* [a-z]{2}
Letters2(t, S) ==
    {i + 2 : i \in {j \in S : IsLetter(CharAt(t, j)) /\ IsLetter(CharAt(t, j + 1))}}

\* <w>\s+
LitSp(tl, S, w) == Spaces1(tl, Lit(tl, S, w))

\* (?:\d{4}[,\s]+)?by\s+(?:and\s+)?between\s+
by_between(tl, S) ==
    LET y == S \cup CommaSpaces1(tl, DigitsN(tl, S, 4))
        b == LitSp(tl, y, "by")
    IN LitSp(tl, b \cup LitSp(tl, b, "and"), "between")

\* (?:and\s+entered\s+into)?\s+(?:this\s+)?(?:\d{1,2}[a-z]{2}\s+day\s+of\s+)?
\* (?:\w+\s+)?, after "made\s+"
made_tail(tl, S) ==
    LET m == S \cup Lit(tl, LitSp(tl, LitSp(tl, S, "and"), "entered"), "into")
        t1 == Spaces1(tl, m)
        t2 == t1 \cup LitSp(tl, t1, "this")
        d == DigitsN(tl, t2, 1) \cup DigitsN(tl, t2, 2)
        t3 == t2 \cup LitSp(tl, LitSp(tl, Spaces1(tl, Letters2(tl, d)), "day"), "of")
    IN t3 \cup Spaces1(tl, Word1(tl, t3))

\* the part of agreement pattern k before group 1, tried at s: the positions
\* at which group 1 may start
agreement_prefix(tl, k, s) ==
    LET a == LitSp(tl, LitSp(tl, {s}, "this"), "agreement")
    IN IF k = 1
       THEN by_between(tl,
              LitSp(tl, LitSp(tl, LitSp(tl, LitSp(tl, a, "is"), "entered"),
                                  "into"), "this"))
       ELSE IF k = 2
       THEN by_between(tl, made_tail(tl, LitSp(tl, LitSp(tl, a, "is"), "made")))
       ELSE LET p == Lit(tl, a \cup Lit(tl, a, "("), "agreement")
                q == Spaces1(tl, p \cup Lit(tl, p, ")"))
            IN by_between(tl, made_tail(tl, LitSp(tl, LitSp(tl, q, "is"), "made")))

\* (?:\(hereinafter|,\s+and\s+the\s+[A-Z]|\.\s+Whereas|\.\s*$) matches at e
terminator_at(tl, e) ==
    \/ IsAt(tl, e, "(hereinafter")
    \/ \E p \in LitSp(tl, LitSp(tl, LitSp(tl, {e}, ","), "and"), "the") :
          IsLetter(CharAt(tl, p))
    \/ Lit(tl, LitSp(tl, {e}, "."), "whereas") # {}
    \/ \E p \in Spaces0(tl, Lit(tl, {e}, ".")) : AtEnd(tl, p)

\* (?:,\s+and\s+|\s+and\s+) tried at e: the position after "and", 0 if the
\* separator does not match at e
separator_and(tl, e) ==
    LET A == Lit(tl, Spaces1(tl, {e} \cup Lit(tl, {e}, ",")), "and")
    IN IF e <= Len(tl) /\ (IsSpace(Ch(tl, e)) \/ Ch(tl, e) = ",")
          /\ A # {} /\ SkipSpaces(tl, Max(A)) > Max(A)
       THEN Max(A) ELSE 0

\* group 2 and the terminator after the separator whose "and" ends at n, the
\* last terminator of the text being at last (0: none): the lazy group ends
\* before the first terminator at least one character after its start; when
\* there is none and a terminator stands right at the start, \s+ gives back
\* one character of whitespace to the group
group2_found(tl, n, a, last) ==
    last > a \/ (terminator_at(tl, a) /\ a - n >= 2)

\* group 1 started at b may end at e
group1_end_ok(tl, b, e, n, last) ==
    n # 0 /\ group2_found(tl, n, SkipSpaces(tl, n), last)

\* the ends at which group 1, started at b, can be followed by the rest
group1_ends(tl, b, last) ==
    {e \in (b + 1)..Len(tl) : group1_end_ok(tl, b, e, separator_and(tl, e), last)}

\* the position of the last terminator of the text, 0 if there is none
last_terminator(tl) ==
    IF \E e \in 1..Len(tl) : terminator_at(tl, e)
    THEN Max({e \in 1..Len(tl) : terminator_at(tl, e)})
    ELSE 0

\* group 2 for the separator whose whitespace ends at a
group2_text(t, tl, a, last) ==
    IF last > a
    THEN SubSeq(t, a, (CHOOSE e \in (a + 1)..Len(tl) :
                          /\ terminator_at(tl, e)
                          /\ \A k \in (a + 1)..(e - 1) : ~terminator_at(tl, k)) - 1)
    ELSE SubSeq(t, a - 1, a - 1)

\* the two groups of the match with group 1 = t[b..e-1]
agreement_groups(t, tl, b, e, last) ==
    [ok |-> TRUE,
     entity1 |-> SubSeq(t, b, e - 1),
     entity2 |-> group2_text(t, tl, SkipSpaces(tl, separator_and(tl, e)), last)]

NoAgreement == [ok |-> FALSE, entity1 |-> "", entity2 |-> ""]

\* the match with group 1 started at b: the lazy group ends at the first
\* possible end
agreement_from(t, tl, b, last) ==
    agreement_groups(t, tl, b, Min(group1_ends(tl, b, last)), last)

\* the starts of group 1, among the ends P of the prefix, from which the
\* rest of the pattern matches
group1_starts(tl, P, last) == {b \in P : group1_ends(tl, b, last) # {}}

\* the match whose prefix may end at the positions of B: the greedy \s+
\* after "between" gives back whitespace only when the match needs it
agreement_with(t, tl, B, last) ==
    IF B = {} THEN NoAgreement ELSE agreement_from(t, tl, Max(B), last)

\* agreement pattern k tried at s, P being its prefix's ends
agreement_at(t, tl, P, last) ==
    agreement_with(t, tl, group1_starts(tl, P, last), last)

\* the start positions at which agreement pattern k matches
agreement_starts(t, tl, k, last) ==
    {s \in Occ(tl, "this") :
        agreement_at(t, tl, agreement_prefix(tl, k, s), last).ok}

\* re.search(agreement_patterns[k], text, re.IGNORECASE | re.DOTALL)
agreement_search_from(t, tl, k, starts, last) ==
    IF starts = {} THEN NoAgreement
    ELSE agreement_at(t, tl, agreement_prefix(tl, k, Min(starts)), last)

agreement_search(t, tl, k, last) ==
    agreement_search_from(t, tl, k, agreement_starts(t, tl, k, last), last)

RECURSIVE agreement_loop(_, _, _, _)
\* for pattern in agreement_patterns, from pattern k on: the first match
agreement_first(t, tl, k, last, m) ==
    IF m.ok THEN m ELSE agreement_loop(t, tl, k + 1, last)

agreement_loop(t, tl, k, last) ==
    IF k > 3 \/ last = 0 THEN NoAgreement
    ELSE agreement_first(t, tl, k, last, agreement_search(t, tl, k, last))

\* last position < j that is not whitespace, plus one: the start of the run
\* of whitespace that ends before j
BackSpaces(t, j) ==
    CHOOSE i \in 1..j :
        /\ i = 1 \/ ~IsSpace(Ch(t, i - 1))
        /\ \A k \in i..(j - 1) : IsSpace(Ch(t, k))

\* position of the first ")" at or after i, 0 if there is none
NextClose(t, i) == first_pos({j \in i..Len(t) : Ch(t, j) = ")"})

\* the first match of \s*\(hereinafter[^)]*\) at or after pos: its span,
\* <<0, 0>> if there is none
paren_span_at(t, pos, i) ==
    IF i = 0 THEN <<0, 0>>
    ELSE <<(IF BackSpaces(t, i) < pos THEN pos ELSE BackSpaces(t, i)),
           NextClose(t, i + 12) + 1>>

paren_span_next(t, tl, pos) ==
    paren_span_at(t, pos,
        first_pos({i \in Occ(tl, "(hereinafter") :
                      i >= pos /\ NextClose(t, i + 12) # 0}))

RECURSIVE paren_spans(_, _, _)
paren_spans_after(t, tl, sp) ==
    IF sp[1] = 0 THEN {} ELSE {sp} \cup paren_spans(t, tl, sp[2])

\* the matches of \s*\(hereinafter[^)]*\) from pos on
paren_spans(t, tl, pos) == paren_spans_after(t, tl, paren_span_next(t, tl, pos))

\* re.sub(r"\s*\(hereinafter[^)]*\)", "", e, flags=re.IGNORECASE).strip()
remove_paren_asides(e) == Strip(ReplaceSpans(e, paren_spans(e, Lower(e), 1), ""))

\* first position >= i whose character is not a lower-case letter
SkipLower(t, i) ==
    CHOOSE j \in i..(Len(t) + 1) :
        /\ j = Len(t) + 1 \/ ~IsLower(Ch(t, j))
        /\ \A k \in i..(j - 1) : IsLower(Ch(t, k))

\* :\s*[A-Z][a-z]+\s*: tried at i, u being the end of the whitespace after
\* the colon: the end of the match, 0 if there is none
noise_end(t, i, u) ==
    IF /\ Ch(t, i) = ":" /\ IsUpper(CharAt(t, u)) /\ SkipLower(t, u + 1) > u + 1
       /\ CharAt(t, SkipSpaces(t, SkipLower(t, u + 1))) = ":"
    THEN SkipSpaces(t, SkipLower(t, u + 1)) + 1
    ELSE 0

noise_at(t, i) == noise_end(t, i, SkipSpaces(t, i + 1))

RECURSIVE noise_spans(_, _)
noise_spans_after(t, i) ==
    IF i = 0 THEN {} ELSE {<<i, noise_at(t, i)>>} \cup noise_spans(t, noise_at(t, i))

\* the matches of :\s*[A-Z][a-z]+\s*: from pos on
noise_spans(t, pos) ==
    noise_spans_after(t, first_pos({i \in pos..Len(t) : noise_at(t, i) # 0}))

\* re.sub(r":\s*[A-Z][a-z]+\s*:", " ", e).strip()
remove_noise(e) == Strip(ReplaceSpans(e, noise_spans(e, 1), " "))

\* , ; :
IsPunct(c) == c \in {",", ";", ":"}

\* start of the run of , ; : that ends before j
BackPunct(t, j) ==
    CHOOSE i \in 1..j :
        /\ i = 1 \/ ~IsPunct(Ch(t, i - 1))
        /\ \A k \in i..(j - 1) : IsPunct(Ch(t, k))

\* re.sub(r"\s*[,;:]+\s*$", "", e).strip(), r being the start of the
\* whitespace that ends e
remove_trailing_punct_from(e, r) ==
    IF BackPunct(e, r) < r
    THEN Strip(SubSeq(e, 1, BackSpaces(e, BackPunct(e, r)) - 1))
    ELSE Strip(e)

remove_trailing_punct(e) == remove_trailing_punct_from(e, BackSpaces(e, Len(e) + 1))

\* re.sub(r"\s*,\s*Iowa\s*$", "", e, flags=re.IGNORECASE).strip(), r being
\* the start of the whitespace that ends e
remove_iowa_from(e, r, c) ==
    IF IsAt(Lower(e), r - 4, "iowa") /\ CharAt(e, c - 1) = ","
    THEN Strip(SubSeq(e, 1, BackSpaces(e, c - 1) - 1))
    ELSE Strip(e)

remove_iowa(e) ==
    remove_iowa_from(e, BackSpaces(e, Len(e) + 1),
        IF BackSpaces(e, Len(e) + 1) > 4
        THEN BackSpaces(e, BackSpaces(e, Len(e) + 1) - 4) ELSE 0)

\* the clean-up of a captured span (lines 285-310)
agreement_entity(raw) ==
    Normalize(remove_iowa(remove_trailing_punct(remove_noise(
        remove_paren_asides(Strip(raw))))))

\* the entities of the match m: what tier B returns, <<None, None>> when it
\* returns nothing
tier_b_entities(entity1, entity2) ==
    IF Len(entity1) > 3 /\ Len(entity2) > 3 THEN <<entity1, entity2>>
    ELSE IF Len(entity1) > 3 THEN <<entity1, None>>
    ELSE <<None, None>>

tier_b_match(m) ==
    IF m.ok
    THEN tier_b_entities(agreement_entity(m.entity1), agreement_entity(m.entity2))
    ELSE <<None, None>>

tier_b(t) == tier_b_match(agreement_loop(t, Lower(t), 1, last_terminator(Lower(t))))

(***************************************************************************)
(* extract_entities, tier C: "City of X" mentions                          *)
(***************************************************************************)
\* the alternatives of (?:City|County|Town|Village|Township)
entity_heads == <<"city", "county", "town", "village", "township">>

\* first position >= i whose character is neither a word character nor
\* whitespace
SkipWordSpace(t, i) ==
    CHOOSE j \in i..(Len(t) + 1) :
        /\ j = Len(t) + 1 \/ ~(IsWord(Ch(t, j)) \/ IsSpace(Ch(t, j)))
        /\ \A k \in i..(j - 1) : IsWord(Ch(t, k)) \/ IsSpace(Ch(t, k))

\* \s+[\w\s]+ after "of" that ends at q: the end of the match, 0 if none
mention_tail(t, q) ==
    IF IsSpace(CharAt(t, q)) /\ SkipWordSpace(t, q) >= q + 2
    THEN SkipWordSpace(t, q) ELSE 0

\* <head>\s+of\s+[\w\s]+ at s, w being the end of the whitespace after head
mention_head(t, tl, s, h, w) ==
    IF IsAt(tl, s, h) /\ w > s + Len(h) /\ IsAt(tl, w, "of")
    THEN mention_tail(t, w + 2) ELSE 0

\* the end of the match of entity_pattern at s, 0 if there is none
mention_end(t, tl, s) ==
    Max({0} \cup {mention_head(t, tl, s, entity_heads[k],
                               SkipSpaces(t, s + Len(entity_heads[k])))
                  : k \in 1..Len(entity_heads)})

RECURSIVE mentions(_, _, _)
mentions_after(t, tl, s) ==
    IF s = 0 THEN <<>>
    ELSE <<SubSeq(t, s, mention_end(t, tl, s) - 1)>>
         \o mentions(t, tl, mention_end(t, tl, s))

\* re.findall(entity_pattern, text, re.IGNORECASE) from pos on
mentions(t, tl, pos) ==
    mentions_after(t, tl,
        first_pos({s \in pos..Len(t) : mention_end(t, tl, s) # 0}))

\* tier_c_unique with the bug of not removing the duplicates
tier_c_first_two(found) ==
    IF Len(found) = 0 THEN <<None, None>>
    ELSE IF Len(found) = 1 THEN <<found[1], None>>
    ELSE <<found[1], found[2]>>

\* unique_entities[0], unique_entities[1]
tier_c_unique(found) ==
    IF Len(found) = 0 THEN <<None, None>>
    ELSE IF \A k \in 1..Len(found) : found[k] = found[1] THEN <<found[1], None>>
    ELSE <<found[1],
           found[CHOOSE k \in 1..Len(found) :
                    /\ found[k] # found[1]
                    /\ \A j \in 1..(k - 1) : found[j] = found[1]]>>

tier_c(t) == tier_c_unique(mentions(t, Lower(t), 1))

(***************************************************************************)
(* extract_entities                                                        *)
(***************************************************************************)
\* a tier found something (it returned)
Found(pair) == pair # <<None, None>>

\* first_found with the bug of passing over a tier that found one party only,
\* for a later tier that found two
first_found_pair(a, b, c) ==
    IF a[1] # None /\ a[2] # None THEN a
    ELSE IF b[1] # None /\ b[2] # None THEN b
    ELSE IF c[1] # None /\ c[2] # None THEN c
    ELSE IF Found(a) THEN a ELSE IF Found(b) THEN b ELSE c

\* what the tiers return, in their order
first_found(a, b, c) == IF Found(a) THEN a ELSE IF Found(b) THEN b ELSE c

\* extract_entities with the bug of falling back on the first line of the
\* text when no tier finds a party
extract_entities_first_line(t) ==
    IF Found(first_found(tier_a(t), tier_b(t), tier_c(t)))
    THEN first_found(tier_a(t), tier_b(t), tier_c(t))
    ELSE <<Strip(SplitLines(t)[1]), None>>

\* extract_entities(text)
extract_entities(t) == first_found(tier_a(t), tier_b(t), tier_c(t))

(***************************************************************************)
(* clean_entity_name                                                       *)
(***************************************************************************)
\* the verbs of the first two sentence patterns
sentence_verbs ==
    <<{"is", "are", "was", "were", "will", "shall", "has", "have"},
      {"established", "organized", "incorporated", "created"}>>

\* (?:wishes?|wish) and (?:provides?|provide)
sentence_wishes == <<{"wishes", "wishe", "wish"}, {"provides", "provide"}>>

\* (?:v1|v2|...)\s+ matches at w
verb_then_space(nl, w, V) ==
    \E v \in V : IsAt(nl, w, v) /\ IsSpace(CharAt(nl, w + Len(v)))

\* (?:h1|h2|...)\s+(?:to|for) matches at w
wish_then_to(nl, w, H) ==
    \E h \in H :
        /\ IsAt(nl, w, h)
        /\ SkipSpaces(nl, w + Len(h)) > w + Len(h)
        /\ \E x \in {"to", "for"} : IsAt(nl, SkipSpaces(nl, w + Len(h)), x)

\* what follows \s+ in sentence pattern k matches at w
sentence_tail(nl, k, w) ==
    IF k <= 2 THEN verb_then_space(nl, w, sentence_verbs[k])
    ELSE wish_then_to(nl, w, sentence_wishes[k - 2])

\* the positions at which group 1 of sentence pattern k may end ('.' does
\* not match a newline)
sentence_cuts(n, nl, k) ==
    {e \in 2..Len(n) : /\ IsSpace(Ch(n, e))
                       /\ NoNewline(n, 1, e)
                       /\ sentence_tail(nl, k, SkipSpaces(nl, e))}

RECURSIVE sentence_loop(_, _, _)
\* for pattern in sentence_patterns, from pattern k on: group(1).strip() of
\* the first that matches
sentence_loop(n, nl, k) ==
    IF k > 4 THEN n
    ELSE IF sentence_cuts(n, nl, k) # {}
    THEN Strip(SubSeq(n, 1, Min(sentence_cuts(n, nl, k)) - 1))
    ELSE sentence_loop(n, nl, k + 1)

\* where the match of \s*\(?hereinafter[^)]*\)?\s* for the "hereinafter"
\* at i starts, the search having started at pos
aside_start(n, pos, i) ==
    IF CharAt(n, i - 1) = "(" /\ i - 1 >= pos
    THEN Max({pos, BackSpaces(n, i - 1)})
    ELSE Max({pos, BackSpaces(n, i)})

\* where it ends, close being the position of the next ")" (0: none)
aside_end(n, close) ==
    IF close = 0 THEN Len(n) + 1 ELSE SkipSpaces(n, close + 1)

aside_at(n, pos, i) ==
    IF i = 0 THEN <<0, 0>>
    ELSE <<aside_start(n, pos, i), aside_end(n, NextClose(n, i + 11))>>

RECURSIVE aside_spans(_, _, _)
aside_spans_after(n, nl, sp) ==
    IF sp[1] = 0 THEN {} ELSE {sp} \cup aside_spans(n, nl, sp[2])

\* the matches of \s*\(?hereinafter[^)]*\)?\s* from pos on
aside_spans(n, nl, pos) ==
    aside_spans_after(n, nl,
        aside_at(n, pos, first_pos({i \in Occ(nl, "hereinafter") : i >= pos})))

\* re.sub(r"\s*\(?hereinafter[^)]*\)?\s*", " ", name, flags=re.IGNORECASE)
remove_asides(n) == ReplaceSpans(n, aside_spans(n, Lower(n), 1), " ")

\* the "hereinafter" at which \s+hereinafter.*$ matches (0: none)
hereinafter_tail_at(n, nl) ==
    first_pos({i \in Occ(nl, "hereinafter") :
                  /\ IsSpace(CharAt(n, i - 1))
                  /\ AtEnd(n, LineEnd(n, i + 11))})

remove_tail_at(n, i) ==
    IF i = 0 THEN n ELSE Splice(n, <<BackSpaces(n, i), LineEnd(n, i + 11)>>, "")

\* re.sub(r"\s+hereinafter.*$", "", name, flags=re.IGNORECASE)
remove_hereinafter_tail(n) == remove_tail_at(n, hereinafter_tail_at(n, Lower(n)))

\* re.sub(r"\s+<phrase>\s*$", "", name, flags=re.IGNORECASE), r being the
\* start of the whitespace that ends the name
remove_ending_at(n, phrase, r) ==
    IF IsAt(Lower(n), r - Len(phrase), phrase)
       /\ IsSpace(CharAt(n, r - Len(phrase) - 1))
    THEN SubSeq(n, 1, BackSpaces(n, r - Len(phrase)) - 1)
    ELSE n

remove_ending(n, phrase) == remove_ending_at(n, phrase, BackSpaces(n, Len(n) + 1))

\* re.sub(r"\s+to as\s*$", "", name, flags=re.IGNORECASE)
remove_to_as(n) == remove_ending(n, "to as")

\* entity_stopwords, in the order of the list
entity_stopwords ==
    <<"and", "whereas", "ss", "the", "that", "this", "said", "agree", "enter",
      "contract", "between", "wishes", "wish", "provides", "provide", "shall",
      "will", "herein", "hereinafter">>

\* the matches of \b<stopword>\b in the lowercased name
stopword_at(nl, w) ==
    {i \in Occ(nl, w) : WordBoundary(nl, i) /\ WordBoundary(nl, i + Len(w))}

RECURSIVE stopword_loop(_, _, _)
\* for stopword in self.entity_stopwords, from stopword k on: the name cut
\* before the first match of the first stopword that is found
stopword_loop(n, nl, k) ==
    IF k > Len(entity_stopwords) THEN n
    ELSE IF stopword_at(nl, entity_stopwords[k]) # {}
    THEN Strip(SubSeq(n, 1, Min(stopword_at(nl, entity_stopwords[k])) - 1))
    ELSE stopword_loop(n, nl, k + 1)

\* re.sub(r"\s*[,;:]?\s*$", "", name), r being the start of the whitespace
\* that ends the name
remove_trailing_mark_at(n, r) ==
    IF IsPunct(CharAt(n, r - 1)) THEN SubSeq(n, 1, BackSpaces(n, r - 1) - 1)
    ELSE SubSeq(n, 1, r - 1)

remove_trailing_mark(n) == remove_trailing_mark_at(n, BackSpaces(n, Len(n) + 1))

\* re.sub(r"\bss\s*$", "", name, flags=re.IGNORECASE), r as above
remove_ss_at(n, r) ==
    IF IsAt(Lower(n), r - 2, "ss") /\ ~IsWordAt(n, r - 3)
    THEN SubSeq(n, 1, r - 3) ELSE n

remove_ss(n) == remove_ss_at(n, BackSpaces(n, Len(n) + 1))

\* the positions at which $ matches
Ends(n) == {e \in {Len(n), Len(n) + 1} : AtEnd(n, e)}

\* re.sub(r"\s+State of Iowa$", "", name, flags=re.IGNORECASE)
remove_state_at(n, E) ==
    IF E = {} THEN n
    ELSE Splice(n, <<BackSpaces(n, Min(E) - 13), Min(E)>>, "")

remove_state(n) ==
    remove_state_at(n, {e \in Ends(n) : /\ IsAt(Lower(n), e - 13, "state of iowa")
                                        /\ IsSpace(CharAt(n, e - 14))})

\* re.sub(r"\s+(?:Office of|Department of)\s*$", "", name, re.IGNORECASE)
remove_office(n) == remove_ending(remove_ending(n, "office of"), "department of")

\* str.isupper() / str.islower(): some cased character, none of the other case
HasUpper(n) == \E i \in 1..Len(n) : IsUpper(Ch(n, i))
HasLower(n) == \E i \in 1..Len(n) : IsLower(Ch(n, i))
OneCase(n) == HasUpper(n) # HasLower(n)

\* first whitespace position >= i (Len(t)+1 if none)
SkipNonSpaces(t, i) ==
    CHOOSE j \in i..(Len(t) + 1) :
        /\ j = Len(t) + 1 \/ IsSpace(Ch(t, j))
        /\ \A k \in i..(j - 1) : ~IsSpace(Ch(t, k))

\* w.capitalize() if w.lower() not in ["of", "and", "the"] else w.lower()
title_word(w) ==
    IF Lower(w) \in {"of", "and", "the"} THEN Lower(w)
    ELSE Upper(Ch(w, 1)) \o Lower(SubSeq(w, 2, Len(w)))

RECURSIVE title_words(_, _)
\* " ".join of the title-cased words of name.split(), from position i on
title_from(n, i, j) ==
    IF j > Len(n) THEN title_word(SubSeq(n, i, j - 1))
    ELSE IF SkipSpaces(n, j) > Len(n) THEN title_word(SubSeq(n, i, j - 1))
    ELSE title_word(SubSeq(n, i, j - 1)) \o " " \o title_words(n, SkipSpaces(n, j))

title_words(n, i) == title_from(n, i, SkipNonSpaces(n, i))

\* lines 178-185
title_case(n) ==
    IF OneCase(n) /\ SkipSpaces(n, 1) <= Len(n)
    THEN title_words(n, SkipSpaces(n, 1))
    ELSE IF OneCase(n) THEN "" ELSE n

\* the alternatives of the pattern of line 194
long_name_heads ==
    <<"city", "county", "town", "village", "township", "agency", "department",
      "district">>

\* the end of the match of line 193-197, 0 if there is none
long_name_end(n, nl) ==
    Max({0} \cup {mention_head(n, nl, 1, long_name_heads[k],
                               SkipSpaces(n, 1 + Len(long_name_heads[k])))
                  : k \in 1..Len(long_name_heads)})

\* lines 191-199
shorten_from(n, e) == IF e = 0 THEN n ELSE SubSeq(n, 1, e - 1)
shorten(n) == IF Len(n) > 80 THEN shorten_from(n, long_name_end(n, Lower(n))) ELSE n

\* lines 149-151
remove_hereinafter(n) == remove_to_as(remove_hereinafter_tail(remove_asides(n)))

\* lines 154-162
cut_at_stopword(n) == stopword_loop(n, Lower(n), 1)

\* lines 132-146
cut_sentence(n) == sentence_loop(n, Lower(n), 1)

\* lines 165-174
remove_suffixes(n) == remove_office(remove_state(remove_ss(remove_trailing_mark(n))))

\* lines 132-162
cut_name(n) == cut_at_stopword(remove_hereinafter(cut_sentence(Strip(n))))

\* clean_entity_name(name)
clean_entity_name(n) ==
    IF Falsy(n) THEN n
    ELSE shorten(Normalize(title_case(remove_suffixes(cut_name(n)))))

(***************************************************************************)
(* parse_contract                                                          *)
(***************************************************************************)
RECURSIVE Unbreak(_, _, _)
\* s[i..j] (i <= j) with every newline replaced by a space
Unbreak(s, i, j) ==
    IF i = j THEN (IF Ch(s, i) = "\n" THEN " " ELSE Ch(s, i))
    ELSE Unbreak(s, i, (i + j) \div 2) \o Unbreak(s, (i + j) \div 2 + 1, j)

\* x.replace("\n", " ").replace("\r", " "), re.sub(r"\s+", " ", x).strip()
one_line(x) == Normalize(Unbreak(x, 1, Len(x)))

\* lines 516-518: the cleaned name if it is valid, else ""
validated(c) == IF is_valid_entity_name(c) THEN c ELSE ""

\* lines 512-518 and 529 (519-525 and 530): the name as it is output
output_name(x) ==
    IF Falsy(x) THEN "" ELSE validated(clean_entity_name(one_line(x)))

(***************************************************************************)
(* The payment-details variant, src/extract_payment_details.py: its own    *)
(* tables, preprocess_text, extract_entities and clean_entity_name. There  *)
(* is no is_valid_entity_name in that file.                                *)
(***************************************************************************)
\* self.ocr_corrections of the variant
ocr_corrections_details ==
    << <<"lowa", "Iowa">>, <<"Countv", "County">>,
       <<"Citv", "City">>, <<"CHickasaw", "Chickasaw">> >>

RECURSIVE apply_corrections_details(_, _)
\* the loop over ocr_corrections from entry k on
apply_corrections_details(t, k) ==
    IF k > Len(ocr_corrections_details) THEN t
    ELSE apply_corrections_details(
            ReplaceSpans(t, error_spans(t, ocr_corrections_details[k][1]),
                         ocr_corrections_details[k][2]),
            k + 1)

preprocess_text_details(t) ==
    IF Falsy(t) THEN t ELSE apply_corrections_details(t, 1)

\* the tests the stripped line after a declaration has to pass
candidate_ok_details(c) ==
    /\ c # ""
    /\ Len(c) > 2
    /\ ~party_prefix(c)
    /\ c \notin {entity_keywords[k] : k \in 1..Len(entity_keywords)}

\* the name the line gives, not validated: None when the line is skipped
candidate_name_details(c) ==
    IF candidate_ok_details(c) THEN Normalize(c) ELSE None

\* the body of the loop for line i whose declaration has the digits d: only
\* the line immediately below is looked at
scan_line_details(lines, i, parties, d) ==
    IF d # "" /\ i < Len(lines)
    THEN store_party(parties, party_num(d),
                     candidate_name_details(Strip(lines[i + 1])))
    ELSE parties

RECURSIVE scan_lines_details(_, _, _)
\* for i, line in enumerate(lines), from line i on
scan_lines_details(lines, i, parties) ==
    IF i > Len(lines) THEN parties
    ELSE scan_lines_details(lines, i + 1,
            scan_line_details(lines, i, parties, party_header(Strip(lines[i]))))

tier_a_details(t) == tier_a_parties(scan_lines_details(SplitLines(t), 1, {}))

\* extract_entities(text) of the variant: the form fields, then the
\* "City of ..." mentions; there is no agreement tier
extract_entities_details(t) ==
    IF Found(tier_a_details(t)) THEN tier_a_details(t) ELSE tier_c(t)

\* self.entity_stopwords of the variant
entity_stopwords_details ==
    <<"and", "whereas", "ss", "the", "that", "this", "said", "agree", "enter",
      "contract", "between">>

RECURSIVE stopword_loop_details(_, _, _)
\* for stopword in self.entity_stopwords, from stopword k on
stopword_loop_details(n, nl, k) ==
    IF k > Len(entity_stopwords_details) THEN n
    ELSE IF stopword_at(nl, entity_stopwords_details[k]) # {}
    THEN Strip(SubSeq(n, 1, Min(stopword_at(nl, entity_stopwords_details[k])) - 1))
    ELSE stopword_loop_details(n, nl, k + 1)

RECURSIVE sentence_loop_details(_, _, _)
\* for pattern in sentence_patterns: the variant has the two verb patterns
sentence_loop_details(n, nl, k) ==
    IF k > Len(sentence_verbs) THEN n
    ELSE IF sentence_cuts(n, nl, k) # {}
    THEN Strip(SubSeq(n, 1, Min(sentence_cuts(n, nl, k)) - 1))
    ELSE sentence_loop_details(n, nl, k + 1)

cut_sentence_details(n) == sentence_loop_details(n, Lower(n), 1)

cut_at_stopword_details(n) == stopword_loop_details(n, Lower(n), 1)

\* the name cut at the sentence verb and then at the stopword; nothing
\* removes a "(hereinafter ...)" aside
cut_name_details(n) == cut_at_stopword_details(cut_sentence_details(Strip(n)))

\* clean_entity_name(name) of the variant
clean_entity_name_details(n) ==
    IF Falsy(n) THEN n
    ELSE shorten(Normalize(title_case(remove_suffixes(cut_name_details(n)))))

(***************************************************************************)
(* extract_payment_relationship of the payment-details variant             *)
(***************************************************************************)
\* the scan order of the two type loops of the variant
entity_types_details ==
    <<"city", "county", "town", "village", "township", "district", "agency",
      "department", "sheriff">>

\* indexes of the entity types contained in the lowercased party
types_in_details(party_lower) ==
    {k \in 1..Len(entity_types_details) :
        Contains(party_lower, entity_types_details[k])}

\* the first of them in scan order, None if the loop ends without a break
party_type_details(party_lower) ==
    IF types_in_details(party_lower) = {} THEN None
    ELSE entity_types_details[Min(types_in_details(party_lower))]

\* the characters re.escape puts a backslash before
EscapedChars == {" ", "\n", ".", "$", "(", ")", "-"}

RECURSIVE Escape(_, _, _)
\* re.escape(s[i..j]) (i <= j)
Escape(s, i, j) ==
    IF i = j THEN (IF Ch(s, i) \in EscapedChars THEN "\\" \o Ch(s, i) ELSE Ch(s, i))
    ELSE Escape(s, i, (i + j) \div 2) \o Escape(s, (i + j) \div 2 + 1, j)

\* re.escape(s)
re_escape(s) == IF s = "" THEN "" ELSE Escape(s, 1, Len(s))

\* the text of a pay_to pattern: the payer, the verb and the payee
pay_to_pattern(a, b) ==
    re_escape(a) \o ".*?(?:shall|will|agrees?\\s+to)\\s+pay.*?" \o re_escape(b)

\* .*  and  .*?  with DOTALL
DotAll(t, S) == IF S = {} THEN {} ELSE Min(S)..(Len(t) + 1)

\* re.search(<a>.*?(?:shall|will|agrees?\s+to)\s+pay.*?<b>, text_lower, re.DOTALL)
pay_to_search(t, a, b) ==
    Lit(t, DotAll(t, verb_pay(t, DotAll(t, Lit(t, AllPos(t), a)))), b) # {}

\* the body of the loop over pay_to_patterns for a pattern that matched:
\* a party is looked up in the text of the pattern, where re.escape has
\* put a backslash before every space of the name
pay_to_step(t, p1, p2, pattern) ==
    IF Contains(pattern, p1) /\ pay_to_search(t, p1, p2) THEN "12"
    ELSE IF Contains(pattern, p2) /\ pay_to_search(t, p2, p1) THEN "21"
    ELSE "none"

\* for pattern in pay_to_patterns
pay_to_rule(t, p1, p2) ==
    IF pay_to_search(t, p1, p2) /\ pay_to_step(t, p1, p2, pay_to_pattern(p1, p2)) # "none"
    THEN pay_to_step(t, p1, p2, pay_to_pattern(p1, p2))
    ELSE IF pay_to_search(t, p2, p1)
    THEN pay_to_step(t, p1, p2, pay_to_pattern(p2, p1))
    ELSE "none"

RECURSIVE article_loop(_, _, _, _)
\* the body of the loop of Pattern 4 on the match m: two if statements, not
\* an if and an elif
article_step(t, p1, p2, m) ==
    IF ~m.ok THEN "none"
    ELSE IF party_matches_text(p1, m.payer) /\ party_matches_text(p2, m.payee)
         THEN "12"
    ELSE IF party_matches_text(p2, m.payer) /\ party_matches_text(p1, m.payee)
         THEN "21"
    ELSE article_loop(t, m.next, p1, p2)

\* for match in re.finditer(pay_pattern, text_lower), from pos
article_loop(t, pos, p1, p2) == article_step(t, p1, p2, pay_match_next(t, pos))

\* Pattern 4: the scan is made only if "the <party1>" and "the <party2>"
\* both occur in the text
article_rule(t, p1, p2) ==
    IF Contains(t, "the " \o p1) /\ Contains(t, "the " \o p2)
    THEN article_loop(t, 1, p1, p2)
    ELSE "none"

\* the cascade of the variant: the order of the result and the rule deciding it
decision_details(tl, p1l, p2l) ==
    Decide(typed_types(tl, party_type_details(p1l), party_type_details(p2l)), "typed",
    Decide(pay_to_rule(tl, p1l, p2l), "direct",
    Decide(payment_to_loop(tl, 1, p1l, p2l), "payment_to",
    Decide(responsible_loop(tl, 1, p1l, p2l), "responsible",
    Decide(article_rule(tl, p1l, p2l), "loose",
    Decide(count_rule(pay_count(tl, 1, p1l), pay_count(tl, 1, p2l)), "count",
    <<default_order, "default">>))))))

\* extract_payment_relationship(text, party1, party2) of the variant
extract_payment_relationship_details(t, p1, p2) ==
    IF Falsy(p1) \/ Falsy(p2)
    THEN [principal |-> p1, agent |-> p2, rule |-> "absent"]
    ELSE Ordered(p1, p2, decision_details(Lower(t), Lower(p1), Lower(p2)))

(***************************************************************************)
(* clean_amount: amounts are kept as exact decimals, m / 10^s with the    *)
(* trailing zeros of the fraction removed, so that equal amounts are equal *)
(* values.  An amount string is what the group [\d,]+\.?\d* captures.      *)
(***************************************************************************)
RECURSIVE Canon(_, _)
\* the decimal m / 10^s in its shortest form
Canon(m, s) ==
    IF s > 0 /\ m % 10 = 0 THEN Canon(m \div 10, s - 1) ELSE [m |-> m, s |-> s]

\* 0.0
Zero == Canon(0, 0)

RECURSIVE Pow10(_)
Pow10(n) == IF n = 0 THEN 1 ELSE 10 * Pow10(n - 1)

\* a < b, a <= b and a > 0 on decimals
DecLess(a, b) == a.m * Pow10(b.s) < b.m * Pow10(a.s)
DecLeq(a, b) == a.m * Pow10(b.s) <= b.m * Pow10(a.s)
Positive(a) == a.m > 0

\* a * n for an integer-valued b
DecTimes(a, b) == Canon(a.m * b.m, a.s + b.s)

RECURSIVE DigitsToInt(_, _, _)
\* the number the digits of s from position i on spell after acc; the commas
\* and the point are passed over
DigitsToInt(s, i, acc) ==
    IF i > Len(s) THEN acc
    ELSE DigitsToInt(s, i + 1,
            IF IsDigit(Ch(s, i)) THEN acc * 10 + IndexIn(DigitChars, Ch(s, i)) - 1
            ELSE acc)

\* the number of digits after the point
FractionDigits(s) ==
    IF Occ(s, ".") = {} THEN 0 ELSE Len(s) - Min(Occ(s, "."))

\* clean_amount(amount_str): the commas removed, then float(); a string
\* without a digit raises ValueError inside float() and gives 0.0
clean_amount(amount_str) ==
    IF \A i \in 1..Len(amount_str) : ~IsDigit(Ch(amount_str, i)) THEN Zero
    ELSE Canon(DigitsToInt(amount_str, 1, 0), FractionDigits(amount_str))

(***************************************************************************)
(* extract_amount: the matches of the amount and rate patterns             *)
(***************************************************************************)
\* [\d,]
IsAmountChar(c) == IsDigit(c) \/ c = ","

\* first position >= i whose character is not a digit or a comma
SkipAmountChars(t, i) ==
    CHOOSE j \in i..(Len(t) + 1) :
        /\ j = Len(t) + 1 \/ ~IsAmountChar(Ch(t, j))
        /\ \A k \in i..(j - 1) : IsAmountChar(Ch(t, k))

\* \.?\d* from e on
fraction_end(t, e) == IF CharAt(t, e) = "." THEN SkipDigits(t, e + 1) ELSE e

\* the end of [\d,]+\.?\d* matched at g, 0 when it does not match there
amount_end(t, g) ==
    IF IsAmountChar(CharAt(t, g)) THEN fraction_end(t, SkipAmountChars(t, g)) ELSE 0

\* [:\s]
IsColonSpace(c) == c = ":" \/ IsSpace(c)

\* first position >= i whose character is not a colon or whitespace
SkipColonSpaces(t, i) ==
    CHOOSE j \in i..(Len(t) + 1) :
        /\ j = Len(t) + 1 \/ ~IsColonSpace(Ch(t, j))
        /\ \A k \in i..(j - 1) : IsColonSpace(Ch(t, k))

\* A match of a pattern: ok, its span [start, stop) and the text of its
\* named group
NoAmount == [ok |-> FALSE, start |-> 0, stop |-> 0, text |-> ""]

AmountMatch(t, i, g, stop) ==
    [ok |-> TRUE, start |-> i, stop |-> stop, text |-> SubSeq(t, g, amount_end(t, g) - 1)]

\* \$\s*(?P<amount>[\d,]+\.?\d*) at d, the match having started at i
dollar_amount_at(t, i, d) ==
    IF CharAt(t, d) = "$" /\ amount_end(t, SkipSpaces(t, d + 1)) # 0
    THEN AmountMatch(t, i, SkipSpaces(t, d + 1), amount_end(t, SkipSpaces(t, d + 1)))
    ELSE NoAmount

\* the end of [Dd]ollars? at p
dollars_end(tl, p) == IF CharAt(tl, p + 6) = "s" THEN p + 7 ELSE p + 6

\* (?P<amount>[\d,]+\.?\d*)\s+[Dd]ollars? at i
amount_dollars_at(t, tl, i) ==
    IF /\ amount_end(t, i) # 0
       /\ SkipSpaces(t, amount_end(t, i)) > amount_end(t, i)
       /\ IsAt(tl, SkipSpaces(t, amount_end(t, i)), "dollar")
    THEN AmountMatch(t, i, i, dollars_end(tl, SkipSpaces(t, amount_end(t, i))))
    ELSE NoAmount

\* [Tt]otal [Ss]um[:\s]+\$\s*(?P<amount>[\d,]+\.?\d*) at i
total_sum_at(t, tl, i) ==
    IF IsAt(tl, i, "total sum") /\ SkipColonSpaces(t, i + 9) > i + 9
    THEN dollar_amount_at(t, i, SkipColonSpaces(t, i + 9))
    ELSE NoAmount

\* <words> \$\s*(?P<amount>[\d,]+\.?\d*) at i, for "sum of " and "amount of "
words_amount_at(t, tl, i, words) ==
    IF IsAt(tl, i, words) THEN dollar_amount_at(t, i, i + Len(words)) ELSE NoAmount

\* self.amount_patterns[k] matched at i with re.IGNORECASE
amount_pattern_at(t, tl, k, i) ==
    IF k = 1 THEN dollar_amount_at(t, i, i)
    ELSE IF k = 2 THEN amount_dollars_at(t, tl, i)
    ELSE IF k = 3 THEN words_amount_at(t, tl, i, "sum of ")
    ELSE IF k = 4 THEN words_amount_at(t, tl, i, "amount of ")
    ELSE total_sum_at(t, tl, i)

\* the number of amount patterns
AmountPatterns == 5

\* per\s+[Xx]<rest> at p: its end, 0 when it does not match
per_unit_at(t, p, unit) ==
    IF /\ IsAt(t, p, "per")
       /\ SkipSpaces(t, p + 3) > p + 3
       /\ LowerChar(CharAt(t, SkipSpaces(t, p + 3))) = Ch(unit, 1)
       /\ IsAt(t, SkipSpaces(t, p + 3) + 1, SubSeq(unit, 2, Len(unit)))
    THEN SkipSpaces(t, p + 3) + Len(unit)
    ELSE 0

\* \s+per\s+[Xx]<rest> from e on
per_unit_end(t, e, unit) ==
    IF SkipSpaces(t, e) > e THEN per_unit_at(t, SkipSpaces(t, e), unit) ELSE 0

\* \$\s*(?P<rate>[\d,]+\.?\d*)\s+per\s+[Xx]<rest> at i, case-sensitive but for
\* the first letter of the unit
rate_at(t, i, unit) ==
    IF /\ dollar_amount_at(t, i, i).ok
       /\ per_unit_end(t, dollar_amount_at(t, i, i).stop, unit) # 0
    THEN [dollar_amount_at(t, i, i) EXCEPT
            !.stop = per_unit_end(t, dollar_amount_at(t, i, i).stop, unit)]
    ELSE NoAmount
\* the contexts: characters kept on each side of a match
AmountContext == 100
PopulationContext == 500
HoursContext == 200

\* text[max(0, match.start() - w):min(len(text), match.end() + w)]
context_of(t, m, w) ==
    SubSeq(t, Max({1, m.start - w}), Min({Len(t), m.stop - 1 + w}))

\* the priority the lowercased context of an explicit amount gives it
priority_of(context) ==
    (IF Contains(context, "total") THEN 3 ELSE 0)
    + (IF Contains(context, "annual") \/ Contains(context, "yearly") THEN 2 ELSE 0)
    + (IF Contains(context, "sum") THEN 2 ELSE 0)
    + (IF Contains(context, "contract") THEN 1 ELSE 0)
    - (IF \/ Contains(context, "per capita")
          \/ Contains(context, "per hour")
          \/ Contains(context, "per month")
       THEN 2 ELSE 0)

\* the leftmost match of amount pattern k that starts at pos or later
amount_pattern_first(t, tl, k, starts) ==
    IF starts = {} THEN NoAmount ELSE amount_pattern_at(t, tl, k, Min(starts))

\* the positions from pos on at which the leftmost match of amount pattern k
\* may start.  A match of pattern 2 that starts at a digit or comma after
\* another one extends to a match that starts one character earlier, so the
\* leftmost match starts at pos or at the first character of a run.
amount_starts(t, k, pos) ==
    IF k = 2
    THEN {i \in pos..Len(t) :
            IsAmountChar(Ch(t, i)) /\ (i = pos \/ ~IsAmountChar(Ch(t, i - 1)))}
    ELSE pos..Len(t)

amount_pattern_next(t, tl, k, pos) ==
    amount_pattern_first(t, tl, k,
        {i \in amount_starts(t, k, pos) : amount_pattern_at(t, tl, k, i).ok})

\* the body of the loop over the matches: an amount that is not positive is
\* not collected
explicit_candidate(t, m) ==
    IF Positive(clean_amount(m.text))
    THEN << <<clean_amount(m.text),
              priority_of(Lower(context_of(t, m, AmountContext)))>> >>
    ELSE <<>>

RECURSIVE explicit_from(_, _, _, _)
explicit_step(t, tl, k, m) ==
    IF m.ok THEN explicit_candidate(t, m) \o explicit_from(t, tl, k, m.stop)
    ELSE <<>>

\* for match in re.finditer(pattern, text, re.IGNORECASE), from pos on
explicit_from(t, tl, k, pos) == explicit_step(t, tl, k, amount_pattern_next(t, tl, k, pos))

RECURSIVE explicit_amounts(_, _, _)
\* for pattern in self.amount_patterns, from pattern k on
explicit_amounts(t, tl, k) ==
    IF k > AmountPatterns THEN <<>>
    ELSE explicit_from(t, tl, k, 1) \o explicit_amounts(t, tl, k + 1)

\* the leftmost match of a rate pattern that starts at pos or later
rate_first(t, unit, starts) ==
    IF starts = {} THEN NoAmount ELSE rate_at(t, Min(starts), unit)

rate_next(t, unit, pos) ==
    rate_first(t, unit, {i \in pos..Len(t) : rate_at(t, i, unit).ok})

\* (?:census|population) at i: its end, 0 when it does not match
census_end(cl, i) ==
    IF IsAt(cl, i, "census") THEN i + 6
    ELSE IF IsAt(cl, i, "population") THEN i + 10
    ELSE 0

\* [\d,]+ at g: the group, "" when it does not match
number_at(c, g) ==
    IF IsAmountChar(CharAt(c, g)) THEN SubSeq(c, g, SkipAmountChars(c, g) - 1) ELSE ""

\* (?:census|population)[:\s]+(?P<pop>[\d,]+) at i
pop_after_at(c, cl, i) ==
    IF census_end(cl, i) # 0 /\ SkipColonSpaces(c, census_end(cl, i)) > census_end(cl, i)
    THEN number_at(c, SkipColonSpaces(c, census_end(cl, i)))
    ELSE ""

\* (?P<pop>[\d,]+)\s+(?:census|population) at i
pop_before_at(c, cl, i) ==
    IF /\ number_at(c, i) # ""
       /\ SkipSpaces(c, SkipAmountChars(c, i)) > SkipAmountChars(c, i)
       /\ census_end(cl, SkipSpaces(c, SkipAmountChars(c, i))) # 0
    THEN number_at(c, i)
    ELSE ""

\* pop_patterns[k] at i
pop_pattern_at(c, cl, k, i) ==
    IF k = 1 THEN pop_after_at(c, cl, i) ELSE pop_before_at(c, cl, i)

\* re.search(pop_patterns[k], context, re.IGNORECASE): group "pop", "" when
\* there is no match
pop_search_first(c, cl, k, starts) ==
    IF starts = {} THEN "" ELSE pop_pattern_at(c, cl, k, Min(starts))

pop_search(c, cl, k) ==
    pop_search_first(c, cl, k, {i \in 1..Len(c) : pop_pattern_at(c, cl, k, i) # ""})

\* no guard on the population
reasonable_pop_unguarded(pop) == TRUE

\* 50 < pop < 100000
reasonable_pop(pop) == DecLess(Canon(50, 0), pop) /\ DecLess(pop, Canon(100000, 0))

RECURSIVE pop_loop(_, _, _, _)
\* for pop_pattern in pop_patterns, from pattern k on: the total is collected
\* for the first pattern whose population is in range
pop_loop(c, cl, rate, k) ==
    IF k > 2 THEN <<>>
    ELSE IF pop_search(c, cl, k) # "" /\ reasonable_pop(clean_amount(pop_search(c, cl, k)))
    THEN << <<DecTimes(rate, clean_amount(pop_search(c, cl, k))), 2>> >>
    ELSE pop_loop(c, cl, rate, k + 1)

\* the body of the per capita loop on the match m
per_capita_candidate(t, m) ==
    pop_loop(context_of(t, m, PopulationContext),
             Lower(context_of(t, m, PopulationContext)),
             clean_amount(m.text), 1)

\* the body of the per month loop: the rate times 12, whatever the rate
per_month_candidate(t, m) == << <<DecTimes(clean_amount(m.text), Canon(12, 0)), 1>> >>

\* (?P<hours>[\d,]+)\s+hours? at i
hours_at(c, cl, i) ==
    IF /\ number_at(c, i) # ""
       /\ SkipSpaces(c, SkipAmountChars(c, i)) > SkipAmountChars(c, i)
       /\ IsAt(cl, SkipSpaces(c, SkipAmountChars(c, i)), "hour")
    THEN number_at(c, i)
    ELSE ""

hours_search_first(c, cl, starts) ==
    IF starts = {} THEN "" ELSE hours_at(c, cl, Min(starts))

\* re.search(r"(?P<hours>[\d,]+)\s+hours?", context, re.IGNORECASE)
hours_search(c, cl) ==
    hours_search_first(c, cl, {i \in 1..Len(c) : hours_at(c, cl, i) # ""})

\* hours > 0 and hours < 10000
reasonable_hours(hours) == Positive(hours) /\ DecLess(hours, Canon(10000, 0))

hours_total(rate, found) ==
    IF found # "" /\ reasonable_hours(clean_amount(found))
    THEN << <<DecTimes(rate, clean_amount(found)), 1>> >>
    ELSE <<>>

\* the body of the per hour loop on the match m
per_hour_candidate(t, m) ==
    hours_total(clean_amount(m.text),
                hours_search(context_of(t, m, HoursContext),
                             Lower(context_of(t, m, HoursContext))))

\* the candidate a match of the rate pattern of a unit gives
rate_candidate(t, unit, m) ==
    IF unit = "capita" THEN per_capita_candidate(t, m)
    ELSE IF unit = "month" THEN per_month_candidate(t, m)
    ELSE per_hour_candidate(t, m)

RECURSIVE derived_from(_, _, _)
derived_step(t, unit, m) ==
    IF m.ok THEN rate_candidate(t, unit, m) \o derived_from(t, unit, m.stop)
    ELSE <<>>

\* for match in re.finditer(per_<unit>_pattern, text), from pos on
derived_from(t, unit, pos) == derived_step(t, unit, rate_next(t, unit, pos))

\* the list amounts at the end of the loops
collected(t) ==
    explicit_amounts(t, Lower(t), 1) \o derived_from(t, "capita", 1)
    \o derived_from(t, "month", 1) \o derived_from(t, "hour", 1)

\* a sort by amount first, priority second
key_greater_by_value(a, b) == DecLess(b[1], a[1]) \/ (a[1] = b[1] /\ a[2] > b[2])

\* the sort key (priority, amount) of a is greater than that of b
key_greater(a, b) == a[2] > b[2] \/ (a[2] = b[2] /\ DecLess(b[1], a[1]))

RECURSIVE sorted_first(_, _, _)
\* amounts.sort(key=lambda x: (x[1], x[0]), reverse=True); amounts[0]: the
\* sort is stable, so the first of the entries with the greatest key
sorted_first(amounts, k, best) ==
    IF k > Len(amounts) THEN best
    ELSE sorted_first(amounts, k + 1,
            IF key_greater(amounts[k], best) THEN amounts[k] ELSE best)

\* lines 423-428
best_amount(amounts) ==
    IF amounts # <<>> THEN sorted_first(amounts, 2, amounts[1])[1] ELSE Zero

\* extract_amount(text)
extract_amount(t) == best_amount(collected(t))

(***************************************************************************)
(* parse_contract of the payment-details variant                           *)
(***************************************************************************)
\* float("nan"), what pandas gives for an empty cell
NaN == "<NaN>"

\* not text or pd.isna(text)
Missing(t) == Falsy(t) \/ t = NaN

\* lines 446-450: the resolver is called only when both parties were found
parse_relate_details(t, p1, p2) ==
    IF ~Falsy(p1) /\ ~Falsy(p2) THEN extract_payment_relationship_details(t, p1, p2)
    ELSE [principal |-> IF Falsy(p1) THEN "" ELSE p1,
          agent |-> IF Falsy(p2) THEN "" ELSE p2,
          rule |-> "skipped"]

\* lines 456-459 and 470 (460-463 and 471): the name as it is output, cleaned
\* and not validated
output_name_details(x) ==
    IF Falsy(x) THEN "" ELSE clean_entity_name_details(one_line(x))

\* lines 452-473
parse_output_details(pdf, t, p1, p2, rel) ==
    [PDF_ID |-> pdf, party1 |-> p1, party2 |-> p2, rule |-> rel.rule,
     principal |-> output_name_details(rel.principal),
     agent |-> output_name_details(rel.agent),
     amount |-> extract_amount(t)]

\* lines 443-473, pair being the result of extract_entities
parse_parties_details(pdf, t, pair) ==
    parse_output_details(pdf, t, pair[1], pair[2],
                         parse_relate_details(t, pair[1], pair[2]))

\* parse_contract(text, pdf_id) of the variant raises: its loop over the
\* lines calls int() in the same way (line 170)
parse_contract_details_raises(t) ==
    ~Missing(t) /\ extract_entities_raises(preprocess_text_details(t))

\* parse_contract(text, pdf_id) of the variant: the record, with the parties
\* extracted on the way and the return site of the resolver
parse_contract_details(t, pdf) ==
    IF Missing(t)
    THEN [PDF_ID |-> pdf, party1 |-> None, party2 |-> None, rule |-> "empty",
          principal |-> "", agent |-> "", amount |-> Zero]
    ELSE parse_parties_details(pdf, preprocess_text_details(t),
            extract_entities_details(preprocess_text_details(t)))

\* no parser session: the variables of a session at rest
NoSession ==
    /\ pdf_id = "" /\ PDF_ID = None /\ amount = Zero /\ last_parties = {} /\ last_amounts = <<>> /\ result = None
    /\ calls = 0

(***************************************************************************)
(* The resolver as a state machine: the caller picks a text and two        *)
(* parties, calls extract_payment_relationship, and may call it again on   *)
(* a re-cased text, on re-cased parties or with the two parties swapped.   *)
(***************************************************************************)
\* payment clauses the texts are made of
Clauses ==
    <<"The City shall pay to the County an annual sum",
      "The County agrees to pay the City a monthly fee",
      "WALL LAKE shall pay LAKE VIEW the sum of $3,935 per month",
      "Payment shall be made to City of Ames",
      "Story County shall be responsible for the payment of fees",
      "Lake View will pay its share",
      "This is a contract with no payment information",
      "The Sheriff will pay the City for facility usage">>

\* what joins two clauses of a text
Joiners == {". ", "\n"}

\* largest number of clauses in a text
MaxClauses == 2

RECURSIVE TextsOf(_, _)
\* the texts of exactly n clauses joined by j
TextsOf(n, j) ==
    IF n = 1 THEN {Clauses[k] : k \in 1..Len(Clauses)}
    ELSE {a \o j \o Clauses[k] : a \in TextsOf(n - 1, j), k \in 1..Len(Clauses)}

Texts == UNION {TextsOf(n, j) : n \in 1..MaxClauses, j \in Joiners}

PartyNames ==
    <<"City of Ames", "Story County", "Wall Lake", "Lake View",
      "Polk County Sheriff", "City of Boone">>

\* the pairs of parties a caller passes: two present parties in either
\* order, or a pair with an absent (None or empty) party
PresentPairs ==
    {<<PartyNames[1], PartyNames[2]>>, <<PartyNames[3], PartyNames[4]>>,
     <<PartyNames[1], PartyNames[5]>>, <<PartyNames[1], PartyNames[6]>>}
AbsentPairs ==
    {<<None, PartyNames[1]>>, <<PartyNames[2], "">>, <<None, None>>}
PartyPairs ==
    PresentPairs \cup {<<p[2], p[1]>> : p \in PresentPairs} \cup AbsentPairs

\* the call itself: the result and the rule that produced it
Resolved(t, p1, p2) ==
    \E r \in {extract_payment_relationship(t, p1, p2)} :
        /\ principal' = r.principal
        /\ agent' = r.agent
        /\ rule' = r.rule

InitResolve ==
    /\ op = "init"
    /\ text \in Texts
    /\ \E p \in PartyPairs : party1 = p[1] /\ party2 = p[2]
    /\ principal = None /\ agent = None /\ rule = "none"
    /\ name = "" /\ valid = FALSE
    /\ NoSession

\* extract_payment_relationship(text, party1, party2)
Resolve ==
    /\ op = "init"
    /\ op' = "resolve"
    /\ Resolved(text, party1, party2)
    /\ UNCHANGED <<text, party1, party2, name, valid>>
    /\ UNCHANGED session_vars

\* the same call on the text in another casing
ResolveRecasedText ==
    /\ op = "resolve"
    /\ \E t \in {Recase(text, f) : f \in CaseModes} :
        /\ text' = t
        /\ Resolved(t, party1, party2)
    /\ op' = "recased_text"
    /\ UNCHANGED <<party1, party2, name, valid>>
    /\ UNCHANGED session_vars

\* the same call with the party names in another casing
ResolveRecasedParties ==
    /\ op = "resolve"
    /\ \E p \in {<<Recase(party1, f), Recase(party2, f)>> : f \in CaseModes} :
        /\ party1' = p[1]
        /\ party2' = p[2]
        /\ Resolved(text, p[1], p[2])
    /\ op' = "recased_parties"
    /\ UNCHANGED <<text, name, valid>>
    /\ UNCHANGED session_vars

\* the same call with the two parties swapped
ResolveSwapped ==
    /\ op = "resolve"
    /\ party1' = party2
    /\ party2' = party1
    /\ Resolved(text, party2, party1)
    /\ op' = "swapped"
    /\ UNCHANGED <<text, name, valid>>
    /\ UNCHANGED session_vars

NextResolve ==
    \/ Resolve
    \/ ResolveRecasedText
    \/ ResolveRecasedParties
    \/ ResolveSwapped

SpecResolve == InitResolve /\ [][NextResolve]_vars

\* a call of extract_payment_relationship has returned in this state
Returned == op \in {"resolve", "recased_text", "recased_parties", "swapped"}

(***************************************************************************)
(* Properties of extract_payment_relationship, checked under SpecResolve   *)
(***************************************************************************)
\* both parties of the call are present (neither None nor empty)
BothPresent == ~Falsy(party1) /\ ~Falsy(party2)

\* the rules that come before "payment ... made to" in the cascade
BeforePaymentTo == {"typed", "direct", "loose"}

\* the rules that come before "shall be responsible for" in the cascade
BeforeResponsible == BeforePaymentTo \cup {"payment_to"}

\* the rules 1-5 of the cascade
Rules1to5 == BeforeResponsible \cup {"responsible", "count"}

\* C1: for every text and every pair of present parties the call returns
\* (party1, party2) or (party2, party1), both strings exactly as passed in:
\* no other string, no party dropped, no party twice.
C1_NeverFabricates ==
    Returned /\ BothPresent =>
        \/ principal = party1 /\ agent = party2
        \/ principal = party2 /\ agent = party1

\* a call that swapped the two parties returned party2 in its original
\* casing, although the rule matched it in the text in upper case
C1_Witness ==
    /\ op = "resolve" /\ text = Clauses[3]
    /\ party1 = "Lake View" /\ party2 = "Wall Lake"
    /\ principal = "Wall Lake" /\ agent = "Lake View"

\* C2: if party1 or party2 is absent (None or empty) the call returns
\* (party1, party2) exactly as given, for every text, and no rule of the
\* cascade is run.
C2_AbsentUnchanged ==
    Returned /\ ~BothPresent =>
        principal = party1 /\ agent = party2 /\ rule = "absent"

\* a call with an empty party2 on a text on which the cascade would act
C2_Witness ==
    /\ op = "resolve" /\ text = Clauses[5]
    /\ party1 = "Story County" /\ party2 = ""
    /\ principal = "Story County" /\ agent = ""

\* the party that has the entity type ty
PartyOfType(ty) == IF get_entity_type(party1) = ty THEN party1 ELSE party2

\* the generic phrasings "<payer type> ... (shall|will|agrees to) pay ...
\* <payee type>" that the text contains and whose payer and payee types are
\* the (differing, known) entity types of the two parties
PhrasingsInText ==
    {k \in 1..Len(generic_patterns) :
        /\ {generic_patterns[k][1], generic_patterns[k][2]}
             = {get_entity_type(party1), get_entity_type(party2)}
        /\ generic_search(Lower(text), generic_patterns[k][1],
                          generic_patterns[k][2])}

\* C3: typed-cascade precedence.  When the two parties have differing known
\* entity types and the text contains a generic phrasing "<payer type> ...
\* (shall|will|agrees to) pay ... <payee type>" for these two types, the call
\* returns the party of the payer type as principal and the party of the
\* payee type as agent (following the first such phrasing of the list city to
\* county, county to city, city to sheriff, sheriff to city when the text
\* contains more than one), whichever party was passed as party1; swapping
\* party1 and party2 in the call does not change the returned pair.
C3_TypedPrecedence ==
    /\ [](Returned /\ BothPresent /\ PhrasingsInText # {} =>
            /\ rule = "typed"
            /\ principal = PartyOfType(generic_patterns[Min(PhrasingsInText)][1])
            /\ agent = PartyOfType(generic_patterns[Min(PhrasingsInText)][2]))
    /\ [][op' = "swapped" /\ rule = "typed" =>
            rule' = "typed" /\ principal' = principal /\ agent' = agent]_vars

\* the county party was passed first and the text says that the city pays:
\* the city is returned as principal, before and after the swap
C3_Witness ==
    /\ op = "swapped" /\ text = Clauses[1]
    /\ party1 = "City of Ames" /\ party2 = "Story County"
    /\ rule = "typed" /\ principal = "City of Ames" /\ agent = "Story County"

\* The text t contains a clause in which a is followed, within Window
\* characters, by (shall|will|agrees to) pay (to) and then, within Window
\* characters, by b.
NamedClause(t, a, b) ==
    \E i \in Occ(t, a) :
        \E v \in (i + Len(a))..(i + Len(a) + Window) :
            \E e \in payment_verb_pattern(t, {v}) :
                \E j \in Occ(t, b) : e <= j /\ j <= e + Window

\* C4: direct named-pair rule.  When the typed cascade does not fire and the
\* text contains a clause in which one party's name is followed by
\* (shall|will|agrees to) pay and then the other party's name, and no such
\* clause in the opposite direction, the call returns (the party named
\* before the verb, the party named after it), whichever of them was passed
\* as party1.
C4_DirectNamedPair ==
    Returned /\ BothPresent /\ rule # "typed" =>
        /\ (/\ NamedClause(Lower(text), Lower(party1), Lower(party2))
            /\ ~NamedClause(Lower(text), Lower(party2), Lower(party1))
            => rule = "direct" /\ principal = party1 /\ agent = party2)
        /\ (/\ NamedClause(Lower(text), Lower(party2), Lower(party1))
            /\ ~NamedClause(Lower(text), Lower(party1), Lower(party2))
            => rule = "direct" /\ principal = party2 /\ agent = party1)

\* the payee was passed first: the payer named in the clause comes first in
\* the result
C4_Witness ==
    /\ op = "resolve" /\ text = Clauses[3]
    /\ party1 = "Lake View" /\ party2 = "Wall Lake"
    /\ rule = "direct" /\ principal = party2 /\ agent = party1

\* the parties whose lowercased name contains the span, or is contained in it
PartiesMatching(span) ==
    {p \in {party1, party2} : party_matches_text(Lower(p), span)}

\* the indexes of the captured spans that match a party
SpansNamingParty(spans) ==
    {k \in 1..Len(spans) : PartiesMatching(spans[k]) # {}}

\* what a rule decides on the spans it captured: nothing when no span matches
\* a party; else the first span that matches a party names the party that
\* takes role "first" (party1 if both parties match), and the other party
\* takes the other role
SpanDecides(spans, rulename, first, other) ==
    IF SpansNamingParty(spans) = {} THEN rule # rulename
    ELSE /\ rule = rulename
         /\ first \in PartiesMatching(spans[Min(SpansNamingParty(spans))])
         /\ party1 \in PartiesMatching(spans[Min(SpansNamingParty(spans))])
              => first = party1
         /\ {first, other} = {party1, party2}

\* C5: "payment ... made to Y" rule.  When no earlier rule fires and the
\* text contains "payment (shall be) made to <span>", the party whose
\* lowercased name contains the captured span, or is contained in it, is
\* returned as agent and the other party as principal; "Payment shall be
\* made to City of Ames" with parties (City of Ames, Story County) yields
\* (Story County, City of Ames).
C5_PaymentMadeTo ==
    /\ Returned /\ BothPresent /\ rule \notin BeforePaymentTo =>
          SpanDecides(payment_to_spans(Lower(text), 1), "payment_to",
                      agent, principal)
    /\ op = "resolve" /\ text = Clauses[4]
       /\ party1 = "City of Ames" /\ party2 = "Story County" =>
          principal = "Story County" /\ agent = "City of Ames"

\* the example of the claim
C5_Witness ==
    /\ op = "resolve" /\ text = Clauses[4]
    /\ party1 = "City of Ames" /\ party2 = "Story County"
    /\ rule = "payment_to"
    /\ principal = "Story County" /\ agent = "City of Ames"

\* C6: "X shall be responsible for ... payment" rule.  When no earlier rule
\* fires and the text contains "<span> shall be responsible for ... payment",
\* the party that matches the captured span by bidirectional substring
\* containment is returned as principal and the other party as agent.
C6_ResponsibleFor ==
    Returned /\ BothPresent /\ rule \notin BeforeResponsible =>
        SpanDecides(responsible_spans(Lower(text), 1), "responsible",
                    principal, agent)

\* the responsible party was passed second and is returned first
C6_Witness ==
    /\ op = "resolve" /\ text = Clauses[5]
    /\ party1 = "City of Ames" /\ party2 = "Story County"
    /\ rule = "responsible"
    /\ principal = "Story County" /\ agent = "City of Ames"

\* C7: default case.  For two present parties and a text in which no payment
\* phrasing of rules 1-5 fires, the call returns (party1, party2): the
\* original order is preserved.
C7_DefaultOrder ==
    /\ Returned /\ BothPresent /\ rule \notin Rules1to5 =>
          rule = "default" /\ principal = party1 /\ agent = party2
    /\ Returned /\ BothPresent /\ Lower(text) = Lower(Clauses[7]) =>
          rule = "default" /\ principal = party1 /\ agent = party2

\* a text without payment phrasing, parties returned in the order passed
C7_Witness ==
    /\ op = "resolve" /\ text = Clauses[7]
    /\ party1 = "Story County" /\ party2 = "City of Ames"
    /\ rule = "default"
    /\ principal = "Story County" /\ agent = "City of Ames"

\* C8: case-insensitivity.  The call returns the same pair for a text and for
\* any re-casing of it (all upper, all lower, mixed), and the same ordering
\* of the two parties for any re-casing of the party names.
C8_CaseInsensitive ==
    [][/\ op' = "recased_text" =>
            principal' = principal /\ agent' = agent /\ rule' = rule
       /\ op' = "recased_parties" =>
            /\ (principal' = party1') = (principal = party1)
            /\ (agent' = party2') = (agent = party2)
            /\ rule' = rule]_vars

\* the clause in upper case still makes the direct rule swap the parties
C8_Witness ==
    /\ op = "recased_text" /\ text = Upper(Clauses[3])
    /\ party1 = "Lake View" /\ party2 = "Wall Lake"
    /\ rule = "direct" /\ principal = "Wall Lake" /\ agent = "Lake View"

(***************************************************************************)
(* parse_contract as a state machine: a caller passes the OCR text of one  *)
(* document and gets the record back.                                      *)
(***************************************************************************)
\* lines 505-509, with the parties swapped into the principal's slot: a
\* lone party always becomes the principal
parse_relate_singleton_first(t, p1, p2) ==
    IF ~Falsy(p1) /\ ~Falsy(p2) THEN extract_payment_relationship(t, p1, p2)
    ELSE [principal |-> IF Falsy(p1) THEN (IF Falsy(p2) THEN "" ELSE p2) ELSE p1,
          agent |-> "",
          rule |-> "skipped"]

\* lines 505-509: the resolver is called only when both parties were found
parse_relate(t, p1, p2) ==
    IF ~Falsy(p1) /\ ~Falsy(p2) THEN extract_payment_relationship(t, p1, p2)
    ELSE [principal |-> IF Falsy(p1) THEN "" ELSE p1,
          agent |-> IF Falsy(p2) THEN "" ELSE p2,
          rule |-> "skipped"]

\* lines 511-531
parse_output(pdf, p1, p2, rel) ==
    [PDF_ID |-> pdf, party1 |-> p1, party2 |-> p2, rule |-> rel.rule,
     principal |-> output_name(rel.principal),
     agent |-> output_name(rel.agent)]

\* lines 503-531, pair being the result of extract_entities
parse_parties(pdf, t, pair) ==
    parse_output(pdf, pair[1], pair[2], parse_relate(t, pair[1], pair[2]))

\* parse_contract(text, pdf_id): the record, with the parties extracted on
\* the way and the return site of the resolver
parse_contract(t, pdf) ==
    IF Missing(t)
    THEN [PDF_ID |-> pdf, party1 |-> None, party2 |-> None, rule |-> "empty",
          principal |-> "", agent |-> ""]
    ELSE parse_parties(pdf, preprocess_text(t), extract_entities(preprocess_text(t)))

\* parse_contract(text, pdf_id) raises: nothing between the call and int()
\* catches the exception
parse_contract_raises(t) ==
    ~Missing(t) /\ extract_entities_raises(preprocess_text(t))

\* the document ids
Ids == {"doc-1", "doc-2"}

RECURSIVE Repeat(_, _)
\* s * n
Repeat(s, n) ==
    IF n = 0 THEN ""
    ELSE IF n % 2 = 1 THEN s \o Repeat(s, n - 1)
    ELSE Repeat(s \o s, n \div 2)

\* a form whose party number has one digit more than int() converts
LongDeclaration == "Party " \o Repeat("1", MaxStrDigits + 1) \o "\nCity of Ames\n"

\* the form fields a document may start with
Headers ==
    {"",
     "Party 1\nCity of Ames\n",
     "Party 2\nPolk County\n",
     "Party 1\nCity of Ames\nParty 2\nPolk County\n",
     "Party 2\nCounty\nStory County\nParty 1\nCITY OF ELDORA\n",
     "Party 1\nFull Legal Name\nParty 2\nCounty\nIA\n",
     "Party 2\n12\nlowa DOT (hereinafter DOT)\n"}

\* the narrative a document may go on with
Bodies ==
    {"",
     "This agreement is entered into this 2020, by and between City of Ames and Story County (hereinafter County).",
     "This Agreement is made  by and between Citv of Ames and IA.",
     "City of Ames, and County of Story.",
     "The City of Ames shall pay the County an annual sum.",
     "Payment shall be made to the County of Each Participant.",
     "Polk County shall pay City of Ames.",
     "The County shall pay to the City the sum of $500.",
     "Nothing is owed."}

\* the documents: a header followed by a narrative (the empty one among
\* them), the missing text (None or NaN) and the form with the long number
Documents ==
    {h \o b : h \in Headers, b \in Bodies} \cup {None, NaN, LongDeclaration}

InitParse ==
    /\ op = "init"
    /\ text \in Documents
    /\ party1 = None /\ party2 = None
    /\ principal = None /\ agent = None /\ rule = "none"
    /\ name = "" /\ valid = FALSE
    /\ pdf_id \in Ids
    /\ PDF_ID = None /\ amount = Zero /\ last_parties = {} /\ last_amounts = <<>> /\ result = None
    /\ calls = 0

\* parse_contract(text, pdf_id): the call returns a record or raises
ParseContract ==
    /\ op = "init"
    /\ IF parse_contract_raises(text)
       THEN /\ op' = "raised"
            /\ UNCHANGED <<party1, party2, principal, agent, rule, PDF_ID>>
       ELSE /\ op' = "parsed"
            /\ \E r \in {parse_contract(text, pdf_id)} :
                /\ party1' = r.party1
                /\ party2' = r.party2
                /\ principal' = r.principal
                /\ agent' = r.agent
                /\ rule' = r.rule
                /\ PDF_ID' = r.PDF_ID
    /\ UNCHANGED <<text, name, valid, pdf_id, amount, last_parties, last_amounts, calls, result>>

NextParse == ParseContract

SpecParse == InitParse /\ [][NextParse]_vars

(***************************************************************************)
(* Properties of parse_contract, checked under SpecParse                   *)
(***************************************************************************)
\* parse_contract has returned
Parsed == op = "parsed"

\* extract_entities yielded exactly one party
OnlyParty1 == Parsed /\ ~Falsy(party1) /\ Falsy(party2)
OnlyParty2 == Parsed /\ Falsy(party1) /\ ~Falsy(party2)

\* C9, as claimed: whenever extract_entities yields exactly one party,
\* whichever index it was captured as, parse_contract runs no payer/payee
\* disambiguation and outputs that party as principal with agent "".
C9_AsClaimed ==
    /\ OnlyParty1 => rule = "skipped" /\ principal = output_name(party1) /\ agent = ""
    /\ OnlyParty2 => rule = "skipped" /\ principal = output_name(party2) /\ agent = ""

\* C9, amended: whenever extract_entities yields exactly one party,
\* parse_contract runs no payer/payee disambiguation and the party keeps its
\* slot: a party captured as index 1 is output (cleaned, "" if the cleaned
\* name is invalid) as principal with agent "", and a party captured as
\* index 2, which only the "Party N" form fields can yield, is output as
\* agent with principal "".
C9_SingletonKeepsSlot ==
    /\ OnlyParty1 => rule = "skipped" /\ principal = output_name(party1) /\ agent = ""
    /\ OnlyParty2 => /\ rule = "skipped"
                     /\ principal = ""
                     /\ agent = output_name(party2)
                     /\ Found(tier_a(preprocess_text(text)))

\* a document whose only party is a "Party 2" field has been parsed
C9_Witness ==
    /\ OnlyParty2
    /\ party2 = "Polk County"
    /\ principal = "" /\ agent = "Polk County" /\ rule = "skipped"

(***************************************************************************)
(* The validator as a state machine: a caller passes a name to             *)
(* is_valid_entity_name.                                                   *)
(***************************************************************************)
\* names as they are found in documents
BaseNames ==
    {"City", "County", "State", "Township", "Polk County", "City of Ames",
     "Full Legal Name", "Organization Type", "Party 3", "Party", "Each Participant",
     "County of Each Participant", "Participant to", "to as",
     "Ames hereinafter referred to as", "and", "or", "the", "a", "an", "ab",
     "Iowa", "Board", "Andover"}

\* whitespace around a name
Paddings == {<<"", "">>, <<" ", "">>, <<"", " ">>, <<"", "\n">>}

\* the names passed to the validator: every base name in every casing with
\* every padding, the empty name and None
Names ==
    {p[1] \o n \o p[2] :
        n \in BaseNames \cup {Recase(b, f) : b \in BaseNames, f \in CaseModes},
        p \in Paddings}
    \cup {"", None}

InitValidate ==
    /\ op = "init"
    /\ name \in Names
    /\ valid = FALSE
    /\ text = "" /\ party1 = None /\ party2 = None
    /\ principal = None /\ agent = None /\ rule = "none"
    /\ NoSession

\* is_valid_entity_name(name)
Validate ==
    /\ op = "init"
    /\ op' = "validate"
    /\ valid' = is_valid_entity_name(name)
    /\ UNCHANGED <<text, party1, party2, principal, agent, rule, name>>
    /\ UNCHANGED session_vars

NextValidate == Validate

SpecValidate == InitValidate /\ [][NextValidate]_vars

\* the name, trimmed and lowercased, is a bare organization-type keyword
IsBareKeyword(n) == ~Falsy(n) /\ Lower(Strip(n)) \in entity_keywords_lower

\* C10 as stated: is_valid_entity_name returns false for every name that has
\* fewer than 3 characters after trimming, that matches a junk pattern
\* case-insensitively, or that equals a bare organization-type keyword in any
\* casing ("City", "County"); it returns true for "Polk County".
C10_AsClaimed ==
    op = "validate" =>
        /\ Falsy(name) \/ Len(Strip(name)) < 3 => ~valid
        /\ ~Falsy(name) /\ matches_invalid_pattern(Lower(name)) => ~valid
        /\ IsBareKeyword(name) => ~valid
        /\ name = "Polk County" => valid

\* C10, the part of the claim that the code keeps: short names and junk
\* patterns are rejected in every casing, a bare keyword is rejected when it
\* is written in lower case, and "Polk County" is accepted.
C10_Kept ==
    op = "validate" =>
        /\ Falsy(name) \/ Len(Strip(name)) < 3 => ~valid
        /\ ~Falsy(name) /\ matches_invalid_pattern(Lower(name)) => ~valid
        /\ IsBareKeyword(name) /\ Strip(name) = Lower(Strip(name)) => ~valid
        /\ name = "Polk County" => valid

\* "City" is passed and accepted
C10_Witness == op = "validate" /\ name = "City" /\ valid

(***************************************************************************)
(* The payment-details parser as a state machine: the caller picks a       *)
(* document and its id and calls parse_contract, or extract_amount on the  *)
(* text.                                                                   *)
(***************************************************************************)
\* what a document may say about money
AmountBodies ==
    {"",
     "The City shall pay the County the sum of $3,935 per month.",
     "Total Sum: $4,000. Polk County shall pay City of Ames a fee of $500.",
     "A fee of $500 is due. $0 per month",
     "$2 per capita, population: 1,200. Annual fee of $2,400.",
     "$15 per hour for 40 hours, or 650 dollars",
     "Payment of $10 and $20 and $10.0",
     "The fee is $, or $0.00",
     "$3 per capita, population 40",
     "$1 per month, then $2 per month, not 900 dollars",
     "Total: $500. Rate: $100 per month",
     "Total: $50. Rate: $100 per hour",
     "The total is $5,000." \o Repeat(".", 110) \o " $100 per month",
     "$2 per capita, population: 50",
     "$2 per capita, 100,000 population",
     "$2 per capita; census: 40, then 60 population",
     "$15 per hour for 10,000 hours",
     "$15 per hour for 0 hours, or 9,999 hours",
     "Nothing is owed."}

DetailDocuments ==
    {h \o b : h \in Headers, b \in AmountBodies} \cup {None, NaN, LongDeclaration}

InitDetails ==
    /\ op = "init"
    /\ text \in DetailDocuments
    /\ pdf_id \in Ids
    /\ party1 = None /\ party2 = None
    /\ principal = None /\ agent = None /\ rule = "none"
    /\ name = "" /\ valid = FALSE
    /\ PDF_ID = None /\ amount = Zero /\ last_parties = {} /\ last_amounts = <<>> /\ result = None
    /\ calls = 0

\* parse_contract(text, pdf_id) of the variant: the call returns a record or
\* raises
ParseContractDetails ==
    /\ op = "init"
    /\ IF parse_contract_details_raises(text)
       THEN /\ op' = "raised"
            /\ UNCHANGED <<party1, party2, principal, agent, rule, amount, PDF_ID>>
       ELSE /\ op' = "parsed_details"
            /\ \E r \in {parse_contract_details(text, pdf_id)} :
                /\ party1' = r.party1
                /\ party2' = r.party2
                /\ principal' = r.principal
                /\ agent' = r.agent
                /\ rule' = r.rule
                /\ amount' = r.amount
                /\ PDF_ID' = r.PDF_ID
    /\ UNCHANGED <<text, name, valid, pdf_id, last_parties, last_amounts, calls, result>>

\* extract_amount(text), on a text that is a string
ExtractAmount ==
    /\ op = "init"
    /\ text \notin {None, NaN}
    /\ op' = "amount"
    /\ amount' = extract_amount(text)
    /\ UNCHANGED <<text, party1, party2, principal, agent, rule, name, valid,
                   pdf_id, PDF_ID, last_parties, last_amounts, calls, result>>

NextDetails == ParseContractDetails \/ ExtractAmount

SpecDetails == InitDetails /\ [][NextDetails]_vars

ParsedDetails == op = "parsed_details"

\* C11: in parse_contract, of src/extract_entity.py and of the payment-details
\* variant alike, every non-empty principal or agent of the output record
\* passes is_valid_entity_name on its final cleaned form.
C11_AsClaimed ==
    (Parsed \/ ParsedDetails) =>
        /\ principal # "" => is_valid_entity_name(principal)
        /\ agent # "" => is_valid_entity_name(agent)

\* a call of parse_contract, of either file, that returned a record
Returns == Parsed \/ ParsedDetails

\* the record of a call that returned: it carries the id it was given, its
\* principal and its agent are strings and its amount is a number, and they
\* are "", "" and 0.0 when the text is missing
RecordAsSpecified ==
    Returns =>
        /\ PDF_ID = pdf_id
        /\ principal # None /\ agent # None
        /\ amount.m \in Nat /\ amount.s \in Nat
        /\ Missing(text) => principal = "" /\ agent = "" /\ amount = Zero
        /\ (party1 = None /\ party2 = None) => principal = "" /\ agent = ""

\* C12: for every input text, missing (None, NaN or empty), without a party
\* or other, parse_contract returns without raising, and the record it
\* returns carries the given document id, strings for principal and agent
\* ("" when missing, never None) and, in the payment-details variant, a
\* number for the amount (0.0 when the text is missing).
C12_AsClaimed == op # "raised" /\ RecordAsSpecified

\* the part of C12 that holds: whenever parse_contract returns, the record is
\* as the claim says
C12_Kept == RecordAsSpecified

\* the call on the form whose party number int() does not convert has raised
C12_Witness == op = "raised" /\ text = LongDeclaration

(***************************************************************************)
(* extract_entities as a state machine: the caller picks a text and calls  *)
(* extract_entities(text) of src/extract_entity.py.                        *)
(***************************************************************************)
\* form fields that try the scan below a "Party N" line
ScanFields ==
    {"Party 1\n\nCity of Ames\n",
     "Party 1\n\n\nCity of Ames\n",
     "Party 1\n\nCounty\nStory County\n",
     "Party 1\nFull Legal Name\nCity of Ames\n",
     "Party 1\n123\nABC\nCity of Ames\n",
     "Party 1\nCity of Ames\nParty 1\nCity of Boone\n",
     "Party 1\nParty 2\nPolk County\n",
     "party 2 \n  Polk   County  \nParty 3\nabc",
     "Party 1\nthe\nStory County\nParty 2\nCITY\n"}

FormFields == Headers \cup ScanFields

\* texts in which a "City of ..." mention is repeated
MentionTexts ==
    {"City of Ames, City of Ames, and County of Story.",
     "Town of Huxley; town of Huxley; Town of Huxley",
     "City of Ames. City of Ames.",
     "Village of Elkhart (Village of Elkhart) Township of Boone, City of Ames"}

ExtractTexts ==
    {h \o b : h \in FormFields, b \in Bodies} \cup {LongDeclaration}
    \cup MentionTexts

InitExtract ==
    /\ op = "init"
    /\ text \in ExtractTexts
    /\ party1 = None /\ party2 = None
    /\ principal = None /\ agent = None /\ rule = "none"
    /\ name = "" /\ valid = FALSE
    /\ NoSession

\* extract_entities(text): the call returns a pair or raises
ExtractEntities ==
    /\ op = "init"
    /\ IF extract_entities_raises(text)
       THEN /\ op' = "raised"
            /\ UNCHANGED <<party1, party2, last_parties>>
       ELSE /\ op' = "extracted"
            /\ \E pair \in {extract_entities(text)} :
                party1' = pair[1] /\ party2' = pair[2]
            /\ last_parties' = scan_lines(SplitLines(text), 1, {})
    /\ UNCHANGED <<text, principal, agent, rule, name, valid, pdf_id, PDF_ID,
                   amount, last_amounts, calls, result>>

NextExtract == ExtractEntities

SpecExtract == InitExtract /\ [][NextExtract]_vars

Extracted == op = "extracted"

\* a line of t is a "Party N" header
HasPartyLine(t) ==
    \E k \in 1..Len(SplitLines(t)) : party_header(Strip(SplitLines(t)[k])) # ""

\* t has "agreement" and, after it, "between", in whatever casing
HasAgreementPhrasing(t) ==
    \E i \in Occ(Lower(t), "agreement") : \E j \in Occ(Lower(t), "between") : i < j

\* t has "city", "county", "town", "village" or "township", whitespace and
\* "of", in whatever casing
HasMention(t) ==
    \E k \in 1..Len(entity_heads) :
        \E i \in Occ(Lower(t), entity_heads[k]) :
            /\ IsSpace(CharAt(t, i + Len(entity_heads[k])))
            /\ IsAt(Lower(t), SkipSpaces(t, i + Len(entity_heads[k])), "of")

\* no tier has anything to match in t
NothingToFind(t) == ~HasPartyLine(t) /\ ~HasAgreementPhrasing(t) /\ ~HasMention(t)

\* C13: for every text without a "Party N" header line, without the
\* "This agreement ... by (and) between" phrasing and without a
\* "(City|County|Town|Village|Township) of ..." mention, extract_entities
\* returns (None, None).
C13_NothingFound ==
    (Extracted /\ NothingToFind(text)) => (party1 = None /\ party2 = None)

\* extract_entities has returned for a text that is not empty and has
\* nothing to find
C13_Witness == Extracted /\ NothingToFind(text) /\ text # "" /\ party1 = None

\* the tier results for the text of the call
TierPairs(t) == <<tier_a(t), tier_b(t), tier_c(t)>>

\* a tier result with both names
BothNames(pair) == pair[1] # None /\ pair[2] # None

\* C14 as claimed: whenever some tier yields both names, the result has both
\* parties and is the pair of the earliest tier, in the order A, B, C, that
\* yields both.
C14_AsClaimed ==
    Extracted =>
        \A k \in 1..3 :
            (BothNames(TierPairs(text)[k])
             /\ \A j \in 1..(k - 1) : ~BothNames(TierPairs(text)[j]))
            => <<party1, party2>> = TierPairs(text)[k]

\* C14, amended: the result is the pair of the earliest tier, in the order
\* A, B, C, that yields a name, be it one name or two; a tier that yields
\* one name ends the search, so the result has both parties only if that
\* tier yields both, and it is (None, None) if no tier yields a name.
C14_FirstTierWithAName ==
    Extracted =>
        /\ \A k \in 1..3 :
            (Found(TierPairs(text)[k])
             /\ \A j \in 1..(k - 1) : ~Found(TierPairs(text)[j]))
            => <<party1, party2>> = TierPairs(text)[k]
        /\ (\A k \in 1..3 : ~Found(TierPairs(text)[k]))
            => <<party1, party2>> = <<None, None>>

\* tier A yields one name and tier B yields both: the result is the one name
C14_Witness ==
    /\ Extracted
    /\ Found(tier_a(text)) /\ ~BothNames(tier_a(text))
    /\ BothNames(tier_b(text))
    /\ <<party1, party2>> = tier_a(text)

\* ------------------------------------------------------------------
\* The amount returned among the collected candidates
\* ------------------------------------------------------------------

AmountReturned == op = "amount"

\* the candidates (amount, priority) extract_amount collected from the text
Candidates == {collected(text)[i] : i \in 1..Len(collected(text))}

\* the (priority, value) tuple of candidate a is at least that of b
TupleAtLeast(a, b) == a[2] > b[2] \/ (a[2] = b[2] /\ DecLeq(b[1], a[1]))

\* C15: extract_amount returns the amount of a collected candidate whose
\* (priority, value) tuple is the maximum over all collected explicit and
\* derived candidates (so on tied priority the larger value), and returns
\* 0.0 if no candidate was collected.
C15_MaxPriorityThenValue ==
    AmountReturned =>
        IF Candidates = {} THEN amount = Zero
        ELSE \E a \in Candidates :
                /\ amount = a[1]
                /\ \A b \in Candidates : TupleAtLeast(a, b)

\* two candidates tie on the highest priority with different values, a
\* candidate of lower priority has a larger value still, and the call returned
C15_Witness ==
    /\ AmountReturned
    /\ \E a, b, c \in Candidates :
        /\ a[2] = b[2] /\ DecLess(b[1], a[1])
        /\ c[2] < a[2] /\ DecLess(a[1], c[1])
        /\ amount = a[1]

\* ------------------------------------------------------------------
\* The sign of the returned amount
\* ------------------------------------------------------------------

\* the text contains an explicit dollar amount greater than zero: one of the
\* amount patterns matches it with an amount that cleans to more than 0
HasExplicitAmount == explicit_amounts(text, Lower(text), 1) # <<>>

\* C16: extract_amount always returns a value greater than or equal to 0, and
\* 0.0 means "not found": whenever the text contains at least one explicit
\* dollar amount greater than zero, the returned amount is greater than zero.
C16_AsClaimed ==
    AmountReturned =>
        /\ DecLeq(Zero, amount)
        /\ HasExplicitAmount => Positive(amount)

\* the part of C16 the code keeps: the returned amount is never negative, and
\* it is greater than zero when an explicit amount was found and no rate of
\* zero per month or per hour outranks it
C16_Kept ==
    AmountReturned =>
        /\ DecLeq(Zero, amount)
        /\ (HasExplicitAmount /\ \A c \in Candidates : Positive(c[1]))
                => Positive(amount)

\* an explicit amount above zero is in the text and 0.0 is returned
C16_Witness == AmountReturned /\ HasExplicitAmount /\ amount = Zero

\* ------------------------------------------------------------------
\* A parser instance over several calls (src/extract_payment_details.py)
\* ------------------------------------------------------------------

\* the number of calls made on one instance
MaxCalls == 2

\* line 164, `parties = {}`: the dictionary of a call starts empty, whatever
\* an earlier call left
new_parties(prev) == {}

\* the list of a call that continues the list of the call before
kept_amounts(prev) == prev

\* line 334, `amounts = []`: the list of a call starts empty, whatever an
\* earlier call left
new_amounts(prev) == <<>>

\* the dictionary extract_entities fills, lines 164-195
session_parties(t, prev) ==
    scan_lines_details(SplitLines(t), 1, new_parties(prev))

\* extract_entities(text), lines 158-210, on an instance whose last call left
\* the dictionary prev
session_entities(t, prev) ==
    IF Found(tier_a_parties(session_parties(t, prev)))
    THEN tier_a_parties(session_parties(t, prev))
    ELSE tier_c(t)

\* the list extract_amount fills, lines 334-421
session_amounts(t, prev) == new_amounts(prev) \o collected(t)

\* extract_amount(text) on an instance whose last call left the list prev
session_amount(t, prev) == best_amount(session_amounts(t, prev))

\* parse_contract(text, pdf_id) on an instance whose last calls left the
\* dictionary prevp and the list preva, t being the preprocessed text
session_parse(t, pdf, prevp, preva) ==
    [parse_parties_details(pdf, t, session_entities(t, prevp))
        EXCEPT !.amount = session_amount(t, preva)]

SessionTexts ==
    {"Party 1\nCity of Ames\nParty 2\nStory County\nStory County shall pay City of Ames the total sum of $900.",
     "Party 1\nPolk County\nThe fee is $10.",
     "Party 2\nTown of Huxley\n$1 per month",
     "Nothing is owed.",
     "$15 per hour for 40 hours, or 650 dollars",
     None, NaN}

\* the texts extract_amount is called with: strings
SessionAmountTexts == SessionTexts \ {None, NaN}

\* the instance after construction: no call made
InitSession ==
    /\ op = "new"
    /\ text = None
    /\ pdf_id = "" /\ PDF_ID = None
    /\ party1 = None /\ party2 = None
    /\ principal = None /\ agent = None /\ rule = "none"
    /\ name = "" /\ valid = FALSE
    /\ amount = Zero /\ last_parties = {} /\ last_amounts = <<>> /\ result = None
    /\ calls = 0

\* the call returns the record of an empty text, lines 432-441
SessionEmpty(t, pdf) ==
    /\ op' = "session_parsed"
    /\ \E r \in {parse_contract_details(t, pdf)} :
        /\ party1' = r.party1 /\ party2' = r.party2
        /\ principal' = r.principal /\ agent' = r.agent /\ rule' = r.rule
        /\ amount' = r.amount /\ PDF_ID' = r.PDF_ID
    /\ UNCHANGED <<last_parties, last_amounts>>

\* the call raises in the loop over the lines
SessionRaise(t, pdf) ==
    /\ op' = "session_raised"
    /\ UNCHANGED <<party1, party2, principal, agent, rule, amount, PDF_ID,
                   last_parties, last_amounts>>

\* the call returns the record of a text, lines 443-473
SessionRecord(t, pdf) ==
    /\ op' = "session_parsed"
    /\ \E pre \in {preprocess_text_details(t)} :
        /\ \E r \in {session_parse(pre, pdf, last_parties, last_amounts)} :
            /\ party1' = r.party1 /\ party2' = r.party2
            /\ principal' = r.principal /\ agent' = r.agent /\ rule' = r.rule
            /\ amount' = r.amount /\ PDF_ID' = r.PDF_ID
        /\ last_parties' = session_parties(pre, last_parties)
        /\ last_amounts' = session_amounts(pre, last_amounts)

\* one more parse_contract(text, pdf_id) on the instance
SessionParseContract ==
    /\ calls < MaxCalls
    /\ \E t \in SessionTexts, pdf \in Ids :
        /\ text' = t /\ pdf_id' = pdf
        /\ IF Missing(t) THEN SessionEmpty(t, pdf)
           ELSE IF parse_contract_details_raises(t) THEN SessionRaise(t, pdf)
           ELSE SessionRecord(t, pdf)
    /\ calls' = calls + 1
    /\ UNCHANGED <<name, valid, result>>

\* one more extract_amount(text) on the instance
SessionExtractAmount ==
    /\ calls < MaxCalls
    /\ \E t \in SessionAmountTexts :
        /\ text' = t
        /\ amount' = session_amount(t, last_amounts)
        /\ last_amounts' = session_amounts(t, last_amounts)
    /\ op' = "session_amount"
    /\ calls' = calls + 1
    /\ UNCHANGED <<party1, party2, principal, agent, rule, name, valid,
                   pdf_id, PDF_ID, last_parties, result>>

NextSession == SessionParseContract \/ SessionExtractAmount

SpecSession == InitSession /\ [][NextSession]_vars

\* the returned record is the one a fresh instance returns for the text
RecordOfFreshParser ==
    \E r \in {parse_contract_details(text, pdf_id)} :
        /\ party1 = r.party1 /\ party2 = r.party2
        /\ principal = r.principal /\ agent = r.agent
        /\ amount = r.amount /\ PDF_ID = r.PDF_ID

Gap(n) == " " \o Repeat(".", n - 2) \o " "

\* texts in which several rules fire, and texts in which a party is named
\* at a distance from the payment verb
CascadeTexts ==
    {"Wall Lake shall pay Lake View. Payment shall be made to Wall Lake.",
     "The City shall pay to the County an annual sum. Story County shall pay City of Ames.",
     "Wall Lake shall pay Lake View. Lake View shall pay Wall Lake.",
     "Ames shall pay Boone a fee. Payment shall be made to Ames.",
     "Payment shall be made to Wall Lake. Wall Lake shall be responsible for fees.",
     "Wall Lake will pay its share. Lake View shall be responsible for fees.",
     "Lake View shall be responsible for fees." \o Gap(100) \o "Wall Lake will pay its share.",
     "Lake View will pay its share",
     "This is a contract with no payment information",
     "Lake View" \o Gap(101) \o "Wall Lake shall pay Lake View the sum. Wall Lake may terminate.",
     "Wall Lake" \o Gap(100) \o "shall pay Lake View",
     "Wall Lake" \o Gap(101) \o "shall pay Lake View",
     "Wall Lake shall pay" \o Gap(101) \o "Lake View",
     "Wall Lake shall pay" \o Gap(102) \o "Lake View"}

CascadePairs ==
    {<<"Wall Lake", "Lake View">>, <<"Lake View", "Wall Lake">>,
     <<"City of Ames", "Story County">>, <<"Story County", "City of Ames">>,
     <<"City of Ames", "City of Boone">>, <<"City of Boone", "City of Ames">>}

InitCascade ==
    /\ op = "init"
    /\ text \in CascadeTexts
    /\ \E p \in CascadePairs : party1 = p[1] /\ party2 = p[2]
    /\ principal = None /\ agent = None /\ rule = "none"
    /\ name = "" /\ valid = FALSE
    /\ NoSession

NextCascade == Resolve \/ ResolveSwapped

SpecCascade == InitCascade /\ [][NextCascade]_vars

\* the rules in the order claimed, each with what it says on the text and
\* the parties of the state: "12" (party1 pays), "21" or "none"
RuleOutcomes ==
    << <<"typed", typed_rule(Lower(text), party1, party2)>>,
       <<"direct", IF direct_search(Lower(text), Lower(party1), Lower(party2))
                   THEN "12" ELSE "none">>,
       <<"direct", IF direct_search(Lower(text), Lower(party2), Lower(party1))
                   THEN "21" ELSE "none">>,
       <<"loose", loose_loop(Lower(text), 1, Lower(party1), Lower(party2))>>,
       <<"payment_to", payment_to_loop(Lower(text), 1, Lower(party1), Lower(party2))>>,
       <<"responsible", responsible_loop(Lower(text), 1, Lower(party1), Lower(party2))>>,
       <<"count", count_rule(pay_count(Lower(text), 1, Lower(party1)),
                             pay_count(Lower(text), 1, Lower(party2)))>>,
       <<"default", "12">> >>

\* the rules that fire
Firing == {k \in 1..Len(RuleOutcomes) : RuleOutcomes[k][2] # "none"}

\* the result is the one rule k gives
ResultOf(k) ==
    /\ rule = RuleOutcomes[k][1]
    /\ IF RuleOutcomes[k][2] = "12"
       THEN principal = party1 /\ agent = party2
       ELSE principal = party2 /\ agent = party1

\* C18: extract_payment_relationship evaluates its rules in the fixed order
\* typed generic cascade, direct named pair (party1-first, then party2-first,
\* then the loose "the X ... pay ... the Y" scan), "payment made to", "shall
\* be responsible for", mention-count fallback, default; the result is that
\* of the first rule that fires, so a later rule never overrides an earlier
\* one.
C18_FirstRuleDecides ==
    Returned /\ BothPresent => ResultOf(Min(Firing))

\* the text holds both "A shall pay B" and "payment shall be made to A": the
\* direct rule and the "payment made to" rule fire with opposite results and
\* the call returns (A, B)
C18_Witness ==
    /\ Returned /\ BothPresent
    /\ RuleOutcomes[1][2] = "none"
    /\ RuleOutcomes[2][2] = "12"
    /\ RuleOutcomes[5][2] = "21"
    /\ principal = party1 /\ agent = party2

\* name a, then at most n characters, then the payment verb (shall | will |
\* agree(s) to, pay, an optional "to"), then at most n further characters,
\* then name b, in the text t
ClauseWithin(t, a, b, n) ==
    \E i \in Occ(t, a), j \in Occ(t, b) :
        \E v \in (i + Len(a))..(i + Len(a) + n) :
            \E e \in payment_verb_pattern(t, {v}) : e <= j /\ j <= e + n

\* the direct pattern decided and the call returned (x, y)
DirectFired(x, y) == rule = "direct" /\ principal = x /\ agent = y

NonBlankAfter(lines, i) ==
    {j \in (i + 1)..Len(lines) : Strip(lines[j]) # ""}

\* the next one or two non-blank lines after line i
NextTwoNonBlank(lines, i) ==
    {j \in NonBlankAfter(lines, i) :
        Cardinality({k \in NonBlankAfter(lines, i) : k < j}) < 2}

\* a line that can be a name: not a "Party N" header, not a bare
\* organization-type keyword, not a numeric code, not an abbreviation of 2 or
\* 3 capital letters, and valid once its whitespace is collapsed
Qualifies(c) ==
    /\ party_header(c) = ""
    /\ ~IsBareKeyword(c)
    /\ ~AllDigits(c)
    /\ ~(Len(c) \in {2, 3} /\ AllUpper(c))
    /\ is_valid_entity_name(Normalize(c))

\* the name for the header on line i: the first qualifying line among the
\* next one or two non-blank lines, None if neither qualifies
NameForHeader(lines, i) ==
    IF \E j \in NextTwoNonBlank(lines, i) : Qualifies(Strip(lines[j]))
    THEN Normalize(Strip(lines[
            Min({j \in NextTwoNonBlank(lines, i) : Qualifies(Strip(lines[j]))})]))
    ELSE None

RECURSIVE NamesTaken(_, _, _)
\* the names taken for the headers from line i on, the first name of an
\* index being kept
NamesTaken(lines, i, parties) ==
    IF i > Len(lines) THEN parties
    ELSE NamesTaken(lines, i + 1,
            IF party_header(Strip(lines[i])) # ""
            THEN store_party(parties, party_num(party_header(Strip(lines[i]))),
                             NameForHeader(lines, i))
            ELSE parties)

\* C20: tier A takes, for each "Party N" header line, the first of the next
\* one or two non-blank lines that is not itself a "Party N" header, a bare
\* organization-type keyword, a pure numeric code or a 2-3 letter
\* abbreviation and that passes is_valid (after collapsing whitespace); if
\* the first such line is invalid, scanning continues with the next line, and
\* if neither of the lines qualifies no name is taken for that header.
C20_AsClaimed ==
    Extracted => last_parties = NamesTaken(SplitLines(text), 1, {})

\* a line below a header is blank: one of the two lines the code looks at
BlankBelowHeader ==
    \E i \in 1..(Len(SplitLines(text)) - 1) :
        /\ party_header(Strip(SplitLines(text)[i])) # ""
        /\ \E j \in {i + 1, i + 2} :
            j <= Len(SplitLines(text)) /\ Strip(SplitLines(text)[j]) = ""
            /\ NonBlankAfter(SplitLines(text), j) # {}

\* a line of the text is a bare keyword that is_valid_entity_name accepts
KeywordAccepted ==
    \E i \in 1..Len(SplitLines(text)) :
        /\ IsBareKeyword(Strip(SplitLines(text)[i]))
        /\ is_valid_entity_name(Normalize(Strip(SplitLines(text)[i])))

\* the part of C20 the code keeps: the names are the claimed ones when no
\* blank line stands between a header and the lines below it and no bare
\* keyword passes validation
C20_Kept ==
    Extracted /\ ~BlankBelowHeader /\ ~KeywordAccepted
        => last_parties = NamesTaken(SplitLines(text), 1, {})

\* a header is followed by blank lines and a name: the name is among the next
\* two non-blank lines and no name is taken
C20_Witness ==
    /\ Extracted
    /\ BlankBelowHeader
    /\ NamesTaken(SplitLines(text), 1, {}) # {}
    /\ last_parties = {}

\* ------------------------------------------------------------------
\* Tier A: the first accepted name of an index is kept
\* ------------------------------------------------------------------

\* the lines of the text that declare party index n and below which a name is
\* accepted
AcceptedHeaders(lines, n) ==
    {i \in 1..(Len(lines) - 1) :
        /\ party_header(Strip(lines[i])) # ""
        /\ party_num(party_header(Strip(lines[i]))) = n
        /\ name_below(lines, i) # None}

\* the indices declared in the text
DeclaredIndices(lines) ==
    {party_num(party_header(Strip(lines[i]))) :
        i \in {j \in 1..Len(lines) : party_header(Strip(lines[j])) # ""}}

\* C21: tier A does not overwrite: the name recorded for party index N is the
\* one accepted at the earliest "Party N" header that produced an accepted
\* name, whatever later headers for N are followed by; an index without such
\* a header has no name, and the names returned by tier A for the indices 1
\* and 2 are the recorded ones.
C21_FirstAcceptedNameKept ==
    Extracted =>
        /\ \A n \in DeclaredIndices(SplitLines(text)) :
            IF AcceptedHeaders(SplitLines(text), n) = {}
            THEN party_of(last_parties, n) = None
            ELSE party_of(last_parties, n) =
                    name_below(SplitLines(text),
                               Min(AcceptedHeaders(SplitLines(text), n)))
        /\ \A p \in last_parties : p[1] \in DeclaredIndices(SplitLines(text))
        /\ last_parties # {} =>
            /\ party1 = party_of(last_parties, "1")
            /\ party2 = party_of(last_parties, "2")

\* two headers for the same index are followed by different accepted names
\* and the first is the one recorded and returned
C21_Witness ==
    /\ Extracted
    /\ \E i, j \in AcceptedHeaders(SplitLines(text), "1") :
        /\ i < j
        /\ name_below(SplitLines(text), i) # name_below(SplitLines(text), j)
        /\ party1 = name_below(SplitLines(text), i)

\* ------------------------------------------------------------------
\* Tier C: the first two distinct mentions
\* ------------------------------------------------------------------

\* the matches of "(City|County|Town|Village|Township) of <words>" in the
\* text, in text order
Mentions == mentions(text, Lower(text), 1)

\* tiers A and B yield nothing on the text
OnlyTierC == ~Found(tier_a(text)) /\ ~Found(tier_b(text))

\* C22: when tiers A and B yield nothing, extract_entities returns the first
\* two distinct "(City|County|Town|Village|Township) of <words>" matches in
\* text order as (party1, party2); the two returned parties are never the
\* same string, and when only one distinct match exists it is returned as
\* party1 with party2 absent.
C22_FirstTwoDistinct ==
    Extracted /\ OnlyTierC =>
        IF Mentions = <<>> THEN party1 = None /\ party2 = None
        ELSE /\ party1 = Mentions[1]
             /\ party2 # party1
             /\ IF \A k \in 1..Len(Mentions) : Mentions[k] = Mentions[1]
                THEN party2 = None
                ELSE \E k \in 1..Len(Mentions) :
                        /\ party2 = Mentions[k]
                        /\ \A j \in 1..(k - 1) : Mentions[j] = Mentions[1]

\* the first match is repeated before a different one: the different one is
\* returned as party2
C22_Witness ==
    /\ Extracted /\ OnlyTierC
    /\ Len(Mentions) >= 3
    /\ Mentions[2] = Mentions[1]
    /\ Mentions[3] # Mentions[1]
    /\ party1 = Mentions[1] /\ party2 = Mentions[3]

\* ------------------------------------------------------------------
\* The entity type of a party
\* ------------------------------------------------------------------

\* party names with no, one or several type keywords
TypedNames ==
    {"Polk County Sheriff", "City of Ames", "Story County", "Township of Boone",
     "Town of Huxley", "Village of Elkhart", "Ames City School District",
     "County Agency", "Department of Transportation", "Wall Lake",
     "SHERIFF OF STORY COUNTY", "City of Des Moines"}

TypedTexts ==
    {"The Sheriff agrees to pay the City for facility usage.",
     "The City will pay the Sheriff for law enforcement services.",
     "The County agrees to pay the City a monthly fee"}

InitTypes ==
    /\ op = "init"
    /\ text \in TypedTexts
    /\ party1 \in TypedNames /\ party2 \in TypedNames /\ party1 # party2
    /\ principal = None /\ agent = None /\ rule = "none"
    /\ name = "" /\ valid = FALSE
    /\ NoSession

\* get_entity_type(party1), get_entity_type(party2): lines 385-386
GetEntityTypes ==
    /\ op = "init"
    /\ op' = "typed"
    /\ result' = <<get_entity_type(party1), get_entity_type(party2)>>
    /\ UNCHANGED <<text, party1, party2, principal, agent, rule, name, valid,
                   pdf_id, PDF_ID, amount, last_parties, last_amounts, calls>>

\* extract_payment_relationship(text, party1, party2) on the typed parties
ResolveTyped ==
    /\ op = "typed"
    /\ op' = "resolve"
    /\ Resolved(text, party1, party2)
    /\ UNCHANGED <<text, party1, party2, name, valid>>
    /\ UNCHANGED session_vars

NextTypes == GetEntityTypes \/ ResolveTyped

SpecTypes == InitTypes /\ [][NextTypes]_vars

\* ty is the type of the party: the first keyword of the scan order that the
\* lowercased name contains, None when it contains none
TypeOf(party, ty) ==
    IF \A k \in 1..Len(entity_types) : ~Contains(Lower(party), entity_types[k])
    THEN ty = None
    ELSE \E k \in 1..Len(entity_types) :
            /\ ty = entity_types[k]
            /\ Contains(Lower(party), entity_types[k])
            /\ \A j \in 1..(k - 1) : ~Contains(Lower(party), entity_types[j])

\* C23: get_entity_type assigns a party at most one entity type, the first
\* keyword of its fixed scan order that is contained in the lowercased name,
\* or none when no keyword is contained; a name that contains "sheriff" is
\* typed sheriff even though it also contains "county", so that "The Sheriff
\* agrees to pay the City" resolves the sheriff party as payer.
C23_FirstKeywordIsType ==
    op \in {"typed", "resolve"} =>
        /\ TypeOf(party1, result[1]) /\ TypeOf(party2, result[2])
        /\ Contains(Lower(party1), "sheriff") => result[1] = "sheriff"
        /\ Contains(Lower(party2), "sheriff") => result[2] = "sheriff"
        /\ (/\ op = "resolve"
            /\ Contains(Lower(text), "the sheriff agrees to pay the city")
            /\ result \in {<<"sheriff", "city">>, <<"city", "sheriff">>})
            => /\ rule = "typed"
               /\ Contains(Lower(principal), "sheriff")
               /\ ~Contains(Lower(agent), "sheriff")

\* "Polk County Sheriff" is typed sheriff and resolved as the payer of "The
\* Sheriff agrees to pay the City"
C23_Witness ==
    /\ op = "resolve"
    /\ party2 = "Polk County Sheriff" /\ result[2] = "sheriff"
    /\ party1 = "City of Des Moines"
    /\ Contains(Lower(text), "the sheriff agrees to pay the city")
    /\ principal = party2 /\ agent = party1

\* ------------------------------------------------------------------
\* The mention-count fallback
\* ------------------------------------------------------------------

\* texts in which no rule before the mention count fires: the parties are
\* named before "pay" once or several times, on the same line or not, near
\* or far
CountTexts ==
    {"Wall Lake pays monthly. Lake View receives.",
     "Wall Lake pays. Lake View pays. Lake View pays again.",
     "Wall Lake\npays. Lake View receives.",
     "Lake View pays." \o Gap(101) \o "Lake View pays." \o Gap(101) \o "Wall Lake pays.",
     "Wall Lake pays." \o Gap(101) \o "Lake View pays.",
     "Wall Lake" \o Gap(100) \o "pay",
     "Wall Lake" \o Gap(101) \o "pay",
     "Lake View repayment. City of Ames payable.",
     "City of Ames, City of Ames and Story County pay.",
     "This is a contract with no fee information"}

InitCount ==
    /\ op = "init"
    /\ text \in CountTexts
    /\ \E p \in CascadePairs : party1 = p[1] /\ party2 = p[2]
    /\ principal = None /\ agent = None /\ rule = "none"
    /\ name = "" /\ valid = FALSE
    /\ NoSession

SpecCount == InitCount /\ [][NextCascade]_vars

\* none of the rules before the mention count fires
FallsToCount == \A k \in 1..6 : RuleOutcomes[k][2] = "none"

\* the occurrences of the name p in t that have a "pay" starting at most
\* Window characters after them, whatever the characters in between
FollowedByPay(t, p) ==
    {i \in Occ(t, p) :
        \E j \in Occ(t, "pay") : i + Len(p) <= j /\ j <= i + Len(p) + Window}

CleanHeads == {"City of Ames", "STORY COUNTY", "polk county", "Town of Huxley"}

CleanTails ==
    {"", " and Boone", " the County and Boone", " said County and Boone",
     ", the County", " ss", " this contract", ", State of Iowa",
     " State of Iowa", ",;", " (hereinafter City)", " is a municipality",
     " hereinafter and the", " Office of", " that and", ", to as,"}

CleanNames ==
    {h \o t : h \in CleanHeads, t \in CleanTails}
    \cup {"The City of Ames", "", None}

InitClean ==
    /\ op = "init"
    /\ name \in CleanNames
    /\ valid = FALSE
    /\ text = "" /\ party1 = None /\ party2 = None
    /\ principal = None /\ agent = None /\ rule = "none"
    /\ NoSession

\* clean_entity_name(name)
CleanEntityName ==
    /\ op = "init"
    /\ op' = "clean"
    /\ result' = clean_entity_name(name)
    /\ UNCHANGED <<text, party1, party2, principal, agent, rule, name, valid,
                   pdf_id, PDF_ID, amount, last_parties, last_amounts, calls>>

\* clean_entity_name applied to the name it returned
CleanAgain ==
    /\ op = "clean"
    /\ op' = "clean_again"
    /\ name' = result
    /\ result' = clean_entity_name(result)
    /\ UNCHANGED <<text, party1, party2, principal, agent, rule, valid,
                   pdf_id, PDF_ID, amount, last_parties, last_amounts, calls>>

NextClean == CleanEntityName \/ CleanAgain

SpecClean == InitClean /\ [][NextClean]_vars

\* the positions in the lowercased name nl at which some stopword stands as
\* a whole word
StopwordPositions(nl) ==
    UNION {stopword_at(nl, entity_stopwords[k]) : k \in 1..Len(entity_stopwords)}

\* the name as it reaches the stopword step (lines 132-151)
BeforeCut(n) == remove_hereinafter(cut_sentence(Strip(n)))

\* the steps that follow the stopword step (lines 165-199)
AfterCut(n) == shorten(Normalize(title_case(remove_suffixes(n))))

\* the name cut before the earliest whole-word stopword, if there is one
CutAtEarliest(n) ==
    IF StopwordPositions(Lower(n)) = {} THEN n
    ELSE Strip(SubSeq(n, 1, Min(StopwordPositions(Lower(n))) - 1))

\* C25: clean_entity_name cuts the name at the earliest position at which
\* any configured stopword stands as a whole word, keeping the text before
\* it, and the cleaned name holds no configured stopword as a whole word.
C25_AsClaimed ==
    op = "clean" /\ ~Falsy(name) =>
        /\ result = AfterCut(CutAtEarliest(BeforeCut(name)))
        /\ StopwordPositions(Lower(result)) = {}

\* the stopword of the name that comes first in the list stands at the
\* earliest stopword position of the name
ListOrderIsTextOrder(nl) ==
    \A k \in 1..Len(entity_stopwords) :
        (/\ stopword_at(nl, entity_stopwords[k]) # {}
         /\ \A j \in 1..(k - 1) : stopword_at(nl, entity_stopwords[j]) = {})
        => Min(stopword_at(nl, entity_stopwords[k])) = Min(StopwordPositions(nl))

\* what holds of the code: the statement of C25 for the names in which the
\* stopword listed first is also the one that stands first
C25_Kept ==
    op = "clean" /\ ~Falsy(name) /\ ListOrderIsTextOrder(Lower(BeforeCut(name))) =>
        /\ result = AfterCut(CutAtEarliest(BeforeCut(name)))
        /\ StopwordPositions(Lower(result)) = {}

\* "the" stands before "and" in the name and the name is cut at "and": the
\* cleaned name still holds "the"
C25_Witness ==
    /\ op = "clean"
    /\ name = "City of Ames the County and Boone"
    /\ result = "City of Ames the County"

\* ------------------------------------------------------------------
\* A total amount and rates in one text
\* ------------------------------------------------------------------

\* the matches of \$\s*[\d,]+\.?\d* in the text
DollarMatches ==
    {dollar_amount_at(text, i, i) : i \in {j \in 1..Len(text) : dollar_amount_at(text, j, j).ok}}

\* the match is a per-unit rate figure: "per capita", "per month" or "per
\* hour" follows the amount
IsRateFigure(m) ==
    \E unit \in {"capita", "month", "hour"} : per_unit_end(Lower(text), m.stop, unit) # 0

\* the context of the match (100 characters on each side) mentions "total"
MentionsTotal(m) == Contains(Lower(context_of(text, m, AmountContext)), "total")

\* the explicit dollar amounts above zero whose context mentions "total",
\* per-unit rate figures left out
TotalFigures ==
    {clean_amount(m.text) :
        m \in {d \in DollarMatches :
                /\ Positive(clean_amount(d.text))
                /\ MentionsTotal(d)
                /\ ~IsRateFigure(d)}}

\* C26: derived totals rank below explicit amounts, so when the text holds an
\* explicit dollar amount whose surrounding context mentions "total",
\* extract_amount returns such an amount, in preference to any per-unit rate
\* figure and to any total derived from a rate.
C26_AsClaimed ==
    AmountReturned /\ TotalFigures # {} => amount \in TotalFigures

\* some total figure has no per-unit phrase within its context
TotalAwayFromRates ==
    \E m \in DollarMatches :
        /\ Positive(clean_amount(m.text))
        /\ MentionsTotal(m)
        /\ priority_of(Lower(context_of(text, m, AmountContext))) >= 3

\* what holds of the code: when a total figure stands more than 100
\* characters away from every per-unit phrase, its priority is at least 3,
\* above the priorities 1 and 2 of the derived totals, and the amount
\* returned is that of an explicit candidate of priority 3 or more
C26_Kept ==
    AmountReturned /\ TotalAwayFromRates =>
        \E c \in Candidates :
            /\ amount = c[1]
            /\ c[2] >= 3
            /\ \E k \in 1..Len(explicit_amounts(text, Lower(text), 1)) :
                    explicit_amounts(text, Lower(text), 1)[k] = c

\* a total of $500 and a rate of $100 per month stand within 100 characters
\* of each other, and twelve times the rate is returned
C26_Witness ==
    /\ AmountReturned
    /\ TotalFigures = {Canon(500, 0)}
    /\ amount = Canon(1200, 0)

\* ------------------------------------------------------------------
\* The ranges of the figures a rate is multiplied by
\* ------------------------------------------------------------------

\* the matches of the rate pattern of a unit in the text
RateMatches(unit) ==
    {rate_at(text, i, unit) : i \in {j \in 1..Len(text) : rate_at(text, j, unit).ok}}

\* the positions of the context c at which a number begins
NumberStarts(c) ==
    {i \in 1..Len(c) : IsAmountChar(Ch(c, i)) /\ (i = 1 \/ ~IsAmountChar(Ch(c, i - 1)))}

\* the population figures of the context c: the numbers that follow or
\* precede "census" or "population"
PopulationFigures(c) ==
    ({pop_after_at(c, Lower(c), i) : i \in 1..Len(c)}
     \cup {pop_before_at(c, Lower(c), i) : i \in NumberStarts(c)}) \ {""}

\* the hour counts of the context c: the numbers that precede "hour(s)"
HourFigures(c) == {hours_at(c, Lower(c), i) : i \in NumberStarts(c)} \ {""}

\* more than 50 and less than 100,000
PopulationInRange(p) == DecLess(Canon(50, 0), p) /\ DecLess(p, Canon(100000, 0))

\* more than 0 and less than 10,000
HoursInRange(h) == DecLess(Zero, h) /\ DecLess(h, Canon(10000, 0))

\* rate x population, for the populations in range near a per-capita rate
GuardedPerCapita ==
    UNION {{<<DecTimes(clean_amount(m.text), clean_amount(p)), 2>> :
                p \in {f \in PopulationFigures(context_of(text, m, PopulationContext)) :
                            PopulationInRange(clean_amount(f))}} :
           m \in RateMatches("capita")}

\* rate x 12, for every per-month rate
PerMonthTotals ==
    {<<DecTimes(clean_amount(m.text), Canon(12, 0)), 1>> : m \in RateMatches("month")}

\* rate x hours, for the hour counts in range near a per-hour rate
GuardedPerHour ==
    UNION {{<<DecTimes(clean_amount(m.text), clean_amount(h)), 1>> :
                h \in {f \in HourFigures(context_of(text, m, HoursContext)) :
                            HoursInRange(clean_amount(f))}} :
           m \in RateMatches("hour")}

\* the candidates that come from the explicit amount patterns
ExplicitCandidates ==
    {explicit_amounts(text, Lower(text), 1)[k] :
        k \in 1..Len(explicit_amounts(text, Lower(text), 1))}

\* C27: the candidates that follow the explicit ones in the list are rate x
\* population for a population figure near the rate that is above 50 and
\* below 100,000, rate x 12 for a per-month rate, or rate x hours for an hour
\* count near the rate that is above 0 and below 10,000; every per-month rate
\* contributes rate x 12; so a figure outside its range contributes no
\* candidate and the amount returned never comes from one.
C27_DerivedTotalsInRange ==
    AmountReturned =>
        /\ \A k \in (Len(explicit_amounts(text, Lower(text), 1)) + 1)..Len(collected(text)) :
                collected(text)[k] \in GuardedPerCapita \cup PerMonthTotals \cup GuardedPerHour
        /\ PerMonthTotals \subseteq Candidates
        /\ amount \in {c[1] : c \in ExplicitCandidates \cup GuardedPerCapita
                                    \cup PerMonthTotals \cup GuardedPerHour}
                      \cup {Zero}

\* a per-capita rate stands near a population of 40 and near one of 60: the
\* total for 60 is returned, none for 40 is collected
C27_Witness ==
    /\ AmountReturned
    /\ \E m \in RateMatches("capita") :
            {clean_amount(p) : p \in PopulationFigures(context_of(text, m, PopulationContext))}
                = {Canon(40, 0), Canon(60, 0)}
    /\ amount = Canon(120, 0)
    /\ \A c \in Candidates : c[1] # Canon(80, 0)

\* ------------------------------------------------------------------
\* The OCR corrections, in any order and applied again
\* ------------------------------------------------------------------

\* words with and without an OCR error, in several casings
OcrWords ==
    {"lowa", "LOWA", "Des l/loines", "lVlarshall", "Countv", "CITV",
     "CHickasaw", "Iowa", "lowan"}

\* the texts preprocessed: two words side by side, the empty text and None
OcrTexts == {a \o " " \o b : a, b \in OcrWords} \cup {"", None}

InitPreprocess ==
    /\ op = "init"
    /\ text \in OcrTexts
    /\ party1 = None /\ party2 = None
    /\ principal = None /\ agent = None /\ rule = "none"
    /\ name = "" /\ valid = FALSE
    /\ NoSession

\* preprocess_text(text)
Preprocess ==
    /\ op = "init"
    /\ op' = "preprocessed"
    /\ result' = preprocess_text(text)
    /\ UNCHANGED <<text, party1, party2, principal, agent, rule, name, valid,
                   pdf_id, PDF_ID, amount, last_parties, last_amounts, calls>>

\* preprocess_text applied to the text it returned
PreprocessAgain ==
    /\ op = "preprocessed"
    /\ op' = "preprocessed_again"
    /\ text' = result
    /\ result' = preprocess_text(result)
    /\ UNCHANGED <<party1, party2, principal, agent, rule, name, valid,
                   pdf_id, PDF_ID, amount, last_parties, last_amounts, calls>>

NextPreprocess == Preprocess \/ PreprocessAgain

SpecPreprocess == InitPreprocess /\ [][NextPreprocess]_vars

\* the orders in which the corrections of the table can be applied
CorrectionOrders ==
    {o \in [1..Len(ocr_corrections) -> 1..Len(ocr_corrections)] :
        \A i, j \in 1..Len(ocr_corrections) : o[i] = o[j] => i = j}

\* correction k alone: re.sub(error, correction, t, flags=re.IGNORECASE)
Corrected(t, k) ==
    ReplaceSpans(t, error_spans(t, ocr_corrections[k][1]), ocr_corrections[k][2])

RECURSIVE CorrectedInOrder(_, _, _)
\* the corrections applied in the order o, from its k-th on
CorrectedInOrder(t, o, k) ==
    IF k > Len(o) THEN t ELSE CorrectedInOrder(Corrected(t, o[k]), o, k + 1)

\* whatever an error of the table matches in t reads as its correction
\* already ("Chickasaw" is matched by its own error, whatever the case)
NoErrorIn(t) ==
    \A k \in 1..Len(ocr_corrections) :
        \A sp \in error_spans(t, ocr_corrections[k][1]) :
            SubSeq(t, sp[1], sp[2] - 1) = ocr_corrections[k][2]

\* C28: preprocess_text returns what the corrections give in any order; the
\* text it returns is not changed by any correction, so applying it twice
\* gives the same text as applying it once; the empty text and None are
\* returned unchanged.
C28_CorrectionsDoNotOverlap ==
    /\ op = "preprocessed" =>
        IF Falsy(text) THEN result = text
        ELSE /\ \A o \in CorrectionOrders : CorrectedInOrder(text, o, 1) = result
             /\ NoErrorIn(result)
    /\ op = "preprocessed_again" => result = text

\* two errors of the table stand side by side and both are corrected
C28_Witness ==
    /\ op = "preprocessed"
    /\ text = "LOWA Countv"
    /\ result = "Iowa County"

\* C29: clean_entity_name is idempotent: cleaning a name that has been
\* cleaned returns it unchanged.
C29_AsClaimed ==
    op = "clean_again" => result = name

\* a name cleaned once still ends in the comma that stood before "State of
\* Iowa", and the second cleaning removes it
C29_Witness ==
    /\ op = "clean_again"
    /\ name = "City of Ames,"
    /\ result = "City of Ames"

\* ------------------------------------------------------------------
\* The resolvers of the two scripts on the same call
\* ------------------------------------------------------------------

InitVariants == InitTypes \/ InitCascade

\* extract_payment_relationship(text, party1, party2) of
\* src/extract_payment_details.py, on the arguments of the call just made
ResolveDetails ==
    /\ op = "resolve"
    /\ op' = "resolve_details"
    /\ \E r \in {extract_payment_relationship_details(text, party1, party2)} :
        result' = <<r.principal, r.agent>>
    /\ UNCHANGED <<text, party1, party2, principal, agent, rule, name, valid,
                   pdf_id, PDF_ID, amount, last_parties, last_amounts, calls>>

NextVariants == Resolve \/ ResolveDetails

SpecVariants == InitVariants /\ [][NextVariants]_vars

\* C30: for every text and every pair of present parties, the resolver of
\* src/extract_payment_details.py returns the same (principal, agent) pair
\* as the resolver of src/extract_entity.py.
C30_AsClaimed ==
    op = "resolve_details" /\ BothPresent => result = <<principal, agent>>

\* what holds of the code: both resolvers return the two parties they were
\* given, in one order or the other
C30_Kept ==
    op = "resolve_details" /\ BothPresent =>
        /\ result \in {<<party1, party2>>, <<party2, party1>>}
        /\ <<principal, agent>> \in {<<party1, party2>>, <<party2, party1>>}

\* the call of the repository's test of the sheriff phrasing: the resolver
\* of src/extract_entity.py returns the sheriff as principal, the other one
\* returns the parties in the order given
C30_Witness ==
    /\ op = "resolve_details"
    /\ text = "The Sheriff agrees to pay the City for facility usage."
    /\ party1 = "City of Des Moines" /\ party2 = "Polk County Sheriff"
    /\ principal = "Polk County Sheriff" /\ agent = "City of Des Moines"
    /\ result = <<"City of Des Moines", "Polk County Sheriff">>
====
